---- MODULE Spec2Model ----
(***************************************************************************)
(* A model of the WebGL solar system: the AstronomicalObject class         *)
(* (js/app/astronomical_object.js), the registry (js/app/solar_system.js), *)
(* the frame driver (js/app/app.js) and the controls that feed it.         *)
(*                                                                         *)
(* Arithmetic is exact.  A real number is a reduced fraction <<n, d>>,     *)
(* d > 0.  An angle that the code computes from Math.PI is kept in turns   *)
(* (radians / 2*pi), so 2*pi*x is the fraction x; the literal angles 1 and *)
(* -1 of beforeOrbit/afterOrbit are whole radians and are kept apart,      *)
(* because pi is irrational: an angle is [t |-> turns, r |-> radians].     *)
(*                                                                         *)
(* A mat4 is the reduced word of the rotations and translations that were  *)
(* multiplied into it, in order: mat4.create() is the empty word, and      *)
(* rotate/translate/multiply append on the right, merging neighbours about *)
(* the same axis and dropping identities.  Equal words are equal matrices. *)
(***************************************************************************)
EXTENDS Integers, Sequences, FiniteSets, TLC

(***************************************************************************)
(* Bounds of the model.                                                    *)
(***************************************************************************)
\* Date.now() at the first frame callback, the first to read the clock
StartNow == 1000
\* the number of clock steps modelled
MaxTicks == 2
\* the number of unpaused frame callbacks modelled
MaxFrames == 2
\* the amounts, in milliseconds, by which the modelled clock steps
Elapses == {500}
\* the values of the millisecondsPerDay slider that are modelled (10..5000, step 10)
SliderValues == {500, 1000}
\* the largest of the small numbers of bands a sphere is built with in the model
MaxBands == 4
\* the number of latitude and of longitude bands initSphericalBuffers asks for
ShippedBands == 30

(***************************************************************************)
(* Exact fractions.                                                        *)
(***************************************************************************)
\* (TLC evaluates an operator's argument again at each of its uses.  The
\* operators below that use an argument more than once first bind it as a
\* value, as the element of a singleton set.)
Abs(x) == IF x < 0 THEN -x ELSE x

RECURSIVE Gcd(_, _)
Gcd(a, b) ==
    IF b = 0 THEN a
    ELSE CHOOSE g \in { Gcd(y, x % y) : x \in {a}, y \in {b} } : TRUE

Reduced(n, d) ==
    LET g == Gcd(Abs(n), Abs(d))
        s == IF d < 0 THEN -1 ELSE 1
    IN  <<(s * n) \div g, (s * d) \div g>>

\* the fraction n / d, d # 0
Frac(n, d) == CHOOSE q \in { Reduced(x, y) : x \in {n}, y \in {d} } : TRUE

Num(n) == <<n, 1>>
Zero == Num(0)
One == Num(1)

Neg(a) == CHOOSE q \in { <<-x[1], x[2]>> : x \in {a} } : TRUE

Plus(a, b) ==
    CHOOSE q \in
        { LET g == Gcd(x[2], y[2])
          IN  Frac(x[1] * (y[2] \div g) + y[1] * (x[2] \div g), (x[2] \div g) * y[2])
            : x \in {a}, y \in {b} } : TRUE

Minus(a, b) == Plus(a, Neg(b))

Times(a, b) ==
    CHOOSE q \in
        { LET u == Frac(x[1], y[2])
              v == Frac(y[1], x[2])
          IN  Frac(u[1] * v[1], u[2] * v[2])
            : x \in {a}, y \in {b} } : TRUE

\* a / b as JavaScript computes it for b # 0
Over(a, b) == CHOOSE q \in { Times(a, <<y[2], y[1]>>) : y \in {b} } : TRUE

\* the fractional part of a, in [0, 1)
Mod1(a) == CHOOSE q \in { <<x[1] % x[2], x[2]>> : x \in {a} } : TRUE

IsZero(a) == a[1] = 0

(***************************************************************************)
(* Angles.                                                                 *)
(***************************************************************************)
Turns(x) == [t |-> x, r |-> 0]
Radians(k) == [t |-> Zero, r |-> k]
AnglePlus(a, b) == [t |-> Plus(a.t, b.t), r |-> a.r + b.r]
\* the angle as a rotation: whole turns do not count
AsRotation(a) == [t |-> Mod1(a.t), r |-> a.r]
NoRotation == [t |-> Zero, r |-> 0]

(***************************************************************************)
(* glMatrix.mat4 as reduced words.                                         *)
(***************************************************************************)
WorldY == <<Zero, One, Zero>>
VecPlus(u, v) == <<Plus(u[1], v[1]), Plus(u[2], v[2]), Plus(u[3], v[3])>>
ZeroVec == <<Zero, Zero, Zero>>
AlongZ(z) == <<Zero, Zero, z>>

mat4_create == <<>>

\* one factor g appended on the right of a reduced word m
AppendFactor(m, g) ==
    LET n == Len(m)
        isId == IF g[1] = "T" THEN g[2] = ZeroVec ELSE g[3] = NoRotation
        merges == /\ n > 0
                  /\ m[n][1] = g[1]
                  /\ (g[1] = "R" => m[n][2] = g[2])
    IN  IF isId THEN m
        ELSE IF ~merges THEN Append(m, g)
        ELSE CHOOSE out \in
                 { IF (IF g[1] = "T" THEN merged[2] = ZeroVec
                                     ELSE merged[3] = NoRotation)
                     THEN SubSeq(m, 1, n - 1)
                     ELSE [m EXCEPT ![n] = merged] :
                   merged \in
                     { IF g[1] = "T"
                         THEN <<"T", VecPlus(m[n][2], g[2])>>
                         ELSE <<"R", g[2], AsRotation(AnglePlus(m[n][3], g[3]))>> } }
                 : TRUE

\* the same, with both arguments bound as values first (an operator's
\* arguments are otherwise evaluated again at each of their uses)
Append1(a, f) ==
    CHOOSE out \in { AppendFactor(m, g) : m \in {a}, g \in {f} } : TRUE

\* mat4.rotate(out, a, rad, axis): out = a * R(axis, rad)
mat4_rotate(a, rad, axis) == Append1(a, <<"R", axis, AsRotation(rad)>>)

\* mat4.translate(out, a, v): out = a * T(v)
mat4_translate(a, v) == Append1(a, <<"T", v>>)

\* mat4.multiply(out, a, b): out = a * b
RECURSIVE MultiplyFrom(_, _, _)
MultiplyFrom(a, b, k) ==
    IF k > Len(b) THEN a
    ELSE MultiplyFrom(Append1(a, b[k]), b, k + 1)

mat4_multiply(a, b) ==
    CHOOSE out \in { MultiplyFrom(a, m, 1) : m \in {b} } : TRUE

(***************************************************************************)
(* AstronomicalObject: construction.  A config is a record holding only    *)
(* the fields the caller wrote; orbits is the registry index of the        *)
(* orbited body, and 0 stands for "orbits nothing" (false).  The empty     *)
(* string stands for a missing string.                                     *)
(***************************************************************************)
\* a mutant of NumOr: only a missing number is replaced, a zero is kept
NumOr_keepsZero(config, f, d) ==
    IF f \in DOMAIN config THEN config[f] ELSE d

\* config.f || d for a number
NumOr(config, f, d) ==
    IF f \in DOMAIN config /\ ~IsZero(config[f]) THEN config[f] ELSE d

\* config.f || d for a string
StrOr(config, f, d) ==
    IF f \in DOMAIN config /\ config[f] # "" THEN config[f] ELSE d

getBoolean(config, f, defaultValue) ==
    IF f \in DOMAIN config THEN config[f] ELSE defaultValue

\* celsius * (Math.PI / 180), in turns
degreesToRadians(celsius) == Over(celsius, Num(360))

setAxis(config) ==
    LET axis == degreesToRadians(NumOr(config, "axis", Zero))
        q == Over(axis, degreesToRadians(Num(90)))
    IN  [axis |-> axis, axisArray |-> <<q, Minus(One, q), Zero>>]

normalise(o) ==
    [o EXCEPT !.orbitDistance = Over(o.orbitDistance, Num(50000)),
              !.radius = Over(o.radius, Num(100))]

\* a mutant of prepareSpecialCases: the rings keep the periods of their config
prepareSpecialCases_ownPeriods(o, ss) ==
    LET d == IF o.orbits # 0
               THEN Plus(Plus(o.radius, o.orbitDistance), ss[o.orbits].radius)
               ELSE Zero
    IN  IF o.name = "Sun"
          THEN [o EXCEPT !.distanceFromBodyWeAreOrbiting = d,
                         !.radius = Over(o.radius, Num(10))]
        ELSE IF o.name = "Saturn's Rings"
          THEN [o EXCEPT !.distanceFromBodyWeAreOrbiting = Zero]
        ELSE [o EXCEPT !.distanceFromBodyWeAreOrbiting = d]

\* a mutant of prepareSpecialCases: the radius of the orbited body is left out
prepareSpecialCases_noParentRadius(o, ss) ==
    LET d == IF o.orbits # 0
               THEN Plus(o.radius, o.orbitDistance)
               ELSE Zero
    IN  IF o.name = "Sun"
          THEN [o EXCEPT !.distanceFromBodyWeAreOrbiting = d,
                         !.radius = Over(o.radius, Num(10))]
        ELSE IF o.name = "Saturn's Rings"
          THEN [o EXCEPT !.distanceFromBodyWeAreOrbiting = Zero,
                         !.orbitalPeriod = ss[o.orbits].orbitalPeriod,
                         !.spinPeriod = ss[o.orbits].spinPeriod]
        ELSE [o EXCEPT !.distanceFromBodyWeAreOrbiting = d]

\* ss is the registry built so far: this.orbits is ss[o.orbits]
prepareSpecialCases(o, ss) ==
    LET d == IF o.orbits # 0
               THEN Plus(Plus(o.radius, o.orbitDistance), ss[o.orbits].radius)
               ELSE Zero
    IN  IF o.name = "Sun"
          THEN [o EXCEPT !.distanceFromBodyWeAreOrbiting = d,
                         !.radius = Over(o.radius, Num(10))]
        ELSE IF o.name = "Saturn's Rings"
          THEN [o EXCEPT !.distanceFromBodyWeAreOrbiting = Zero,
                         !.orbitalPeriod = ss[o.orbits].orbitalPeriod,
                         !.spinPeriod = ss[o.orbits].spinPeriod]
        ELSE [o EXCEPT !.distanceFromBodyWeAreOrbiting = d]

\* the fields that construction and the callbacks fill in later
Unset ==
    [distanceFromBodyWeAreOrbiting |-> Zero, origin |-> ZeroVec,
     lastSpinAngle |-> Zero, lastOrbitAngle |-> Zero, cumulativeOrbitAngle |-> Zero,
     modelViewMatrix |-> mat4_create, isNotFirstAnimationFrame |-> FALSE,
     texture |-> FALSE, specularTexture |-> FALSE, isReady |-> FALSE]

setAttributes(config, ss) ==
    LET ax == setAxis(config)
        o == [name |-> StrOr(config, "name", "name not set"),
              orbits |-> IF "orbits" \in DOMAIN config THEN config.orbits ELSE 0,
              orbitDistance |-> NumOr(config, "orbitDistance", Zero),
              orbitalPeriod |-> NumOr(config, "orbitalPeriod", One),
              spinPeriod |-> NumOr(config, "spinPeriod", One),
              radius |-> NumOr(config, "radius", Num(10)),
              textureImage |-> StrOr(config, "texture", "textures/moon.gif"),
              specularTextureImage |-> StrOr(config, "specularTexture", ""),
              spherical |-> getBoolean(config, "spherical", TRUE),
              useLighting |-> getBoolean(config, "useLighting", TRUE),
              spins |-> getBoolean(config, "spins", TRUE),
              spinsClockwise |-> getBoolean(config, "spinsClockwise", FALSE),
              shortcutKey |-> StrOr(config, "shortcutKey", ""),
              axis |-> ax.axis,
              axisArray |-> ax.axisArray] @@ Unset
    IN  prepareSpecialCases(normalise(o), ss)

setOrigin(o, config, ss) ==
    IF "origin" \in DOMAIN config
      THEN [o EXCEPT !.origin = config.origin]
    ELSE IF o.orbits # 0
      THEN [o EXCEPT !.origin =
              <<ss[o.orbits].origin[1], ss[o.orbits].origin[2],
                Minus(ss[o.orbits].origin[3], o.distanceFromBodyWeAreOrbiting)>>]
    ELSE [o EXCEPT !.origin = ZeroVec]

\* a mutant of setRandomStartingOrbit: the phase of a clockwise body is not negated
setRandomStartingOrbit_unsigned(o, u) ==
    IF o.name = "Saturn's Rings"
      THEN [o EXCEPT !.lastSpinAngle = Zero,
                     !.lastOrbitAngle = degreesToRadians(Num(90)),
                     !.cumulativeOrbitAngle = degreesToRadians(Num(90))]
    ELSE IF o.orbits # 0
      THEN [o EXCEPT !.lastSpinAngle = Zero,
                     !.lastOrbitAngle = Over(One, u),
                     !.cumulativeOrbitAngle = Over(One, u)]
    ELSE [o EXCEPT !.lastSpinAngle = Zero,
                   !.lastOrbitAngle = Zero,
                   !.cumulativeOrbitAngle = Zero]

\* u is the value Math.random() returns, 0 < u < 1
setRandomStartingOrbit(o, u) ==
    IF o.name = "Saturn's Rings"
      THEN [o EXCEPT !.lastSpinAngle = Zero,
                     !.lastOrbitAngle = degreesToRadians(Num(90)),
                     !.cumulativeOrbitAngle = degreesToRadians(Num(90))]
    ELSE IF o.orbits # 0
      THEN LET randomStartingOrbit ==
                   IF o.spinsClockwise THEN Neg(Over(One, u)) ELSE Over(One, u)
           IN  [o EXCEPT !.lastSpinAngle = Zero,
                         !.lastOrbitAngle = randomStartingOrbit,
                         !.cumulativeOrbitAngle = randomStartingOrbit]
    ELSE [o EXCEPT !.lastSpinAngle = Zero,
                   !.lastOrbitAngle = Zero,
                   !.cumulativeOrbitAngle = Zero]

\* this.orbits.orbits: undefined (falsy) when this.orbits is false
OrbitsAnOrbiter(o, ss) == o.orbits # 0 /\ ss[o.orbits].orbits # 0

initMatrix(o, ss) ==
    LET m0 == mat4_create
        m1 == IF OrbitsAnOrbiter(o, ss)
                THEN mat4_translate(
                         mat4_rotate(m0, Turns(ss[o.orbits].lastOrbitAngle), WorldY),
                         ss[o.orbits].origin)
                ELSE m0
        m2 == mat4_rotate(m1, Turns(o.lastOrbitAngle), WorldY)
    IN  [o EXCEPT !.modelViewMatrix =
            mat4_translate(m2, AlongZ(Neg(o.distanceFromBodyWeAreOrbiting)))]

\* whether the constructor draws from Math.random()
DrawsRandom(config) ==
    /\ "orbits" \in DOMAIN config
    /\ config.orbits # 0
    /\ StrOr(config, "name", "name not set") # "Saturn's Rings"

\* new AstronomicalObject(config); the images start to download
AstronomicalObject(config, ss, u) ==
    initMatrix(setRandomStartingOrbit(setOrigin(setAttributes(config, ss), config, ss), u), ss)

\* the module body of solar_system.js: the configs are constructed in order,
\* each drawing the next value of the random stream when it needs one
RECURSIVE Construct(_, _, _)
Construct(configs, ss, stream) ==
    IF Len(ss) = Len(configs) THEN ss
    ELSE LET config == configs[Len(ss) + 1]
         IN  IF DrawsRandom(config)
               THEN Construct(configs,
                              Append(ss, AstronomicalObject(config, ss, Head(stream))),
                              Tail(stream))
               ELSE Construct(configs,
                              Append(ss, AstronomicalObject(config, ss, One)),
                              stream)

(***************************************************************************)
(* The registries.  ShippedSystem is solar_system.js restricted to one     *)
(* body of each kind, in the order of the shipped array; ScenarioSystem is *)
(* a sun that does not spin and is configured with an orbitalPeriod of 0,  *)
(* a star that spins clockwise, one planet with periods 10 and 2, a ring    *)
(* system around the planet that is configured with periods and a distance *)
(* of its own, and one around the star; both ring systems are configured   *)
(* not to spin.                                                            *)
(***************************************************************************)
\* a mutant of ShippedConfigs: the rings are given the moon to orbit
ShippedConfigs_ringsAroundMoon ==
    << [name |-> "Galaxy", origin |-> ZeroVec, radius |-> Num(6000000),
        texture |-> "textures/galaxy.jpg", spins |-> FALSE],
       [name |-> "Sun", origin |-> ZeroVec, spinPeriod |-> Num(29),
        radius |-> Num(432500), axis |-> Frac(725, 100),
        texture |-> "textures/sunmap.jpg", useLighting |-> FALSE],
       [name |-> "Venus", orbits |-> 2, orbitDistance |-> Num(67000000),
        orbitalPeriod |-> Frac(22646, 100), spinPeriod |-> Num(243),
        spinsClockwise |-> TRUE, radius |-> Num(3761), axis |-> Frac(17736, 100),
        texture |-> "textures/venusmap.jpg", shortcutKey |-> "2"],
       [name |-> "Earth", orbits |-> 2, orbitDistance |-> Num(93000000),
        orbitalPeriod |-> Frac(36525, 100), spinPeriod |-> Num(1),
        radius |-> Num(3959), axis |-> Frac(2345, 100),
        texture |-> "textures/earthmap1k.jpg",
        specularTexture |-> "textures/earthspecular1k.gif", shortcutKey |-> "3"],
       [name |-> "Saturn", orbits |-> 2, orbitDistance |-> Num(886000000),
        orbitalPeriod |-> Frac(1076027, 100), spinPeriod |-> Frac(44, 100),
        radius |-> Num(36184), axis |-> Frac(2673, 100),
        texture |-> "textures/saturnmap.jpg", shortcutKey |-> "6"],
       [name |-> "Earth's Moon", orbits |-> 4, orbitDistance |-> Num(2400000),
        orbitalPeriod |-> Frac(273, 10), spinPeriod |-> Frac(273, 10),
        radius |-> Num(1000), axis |-> Frac(15, 10)],
       [name |-> "Saturn's Rings", orbits |-> 6, spherical |-> FALSE,
        radius |-> Num(85000), axis |-> Num(27),
        texture |-> "textures/ringsRGBA.png", useLighting |-> FALSE] >>

ShippedConfigs ==
    << [name |-> "Galaxy", origin |-> ZeroVec, radius |-> Num(6000000),
        texture |-> "textures/galaxy.jpg", spins |-> FALSE],
       [name |-> "Sun", origin |-> ZeroVec, spinPeriod |-> Num(29),
        radius |-> Num(432500), axis |-> Frac(725, 100),
        texture |-> "textures/sunmap.jpg", useLighting |-> FALSE],
       [name |-> "Venus", orbits |-> 2, orbitDistance |-> Num(67000000),
        orbitalPeriod |-> Frac(22646, 100), spinPeriod |-> Num(243),
        spinsClockwise |-> TRUE, radius |-> Num(3761), axis |-> Frac(17736, 100),
        texture |-> "textures/venusmap.jpg", shortcutKey |-> "2"],
       [name |-> "Earth", orbits |-> 2, orbitDistance |-> Num(93000000),
        orbitalPeriod |-> Frac(36525, 100), spinPeriod |-> Num(1),
        radius |-> Num(3959), axis |-> Frac(2345, 100),
        texture |-> "textures/earthmap1k.jpg",
        specularTexture |-> "textures/earthspecular1k.gif", shortcutKey |-> "3"],
       [name |-> "Saturn", orbits |-> 2, orbitDistance |-> Num(886000000),
        orbitalPeriod |-> Frac(1076027, 100), spinPeriod |-> Frac(44, 100),
        radius |-> Num(36184), axis |-> Frac(2673, 100),
        texture |-> "textures/saturnmap.jpg", shortcutKey |-> "6"],
       [name |-> "Earth's Moon", orbits |-> 4, orbitDistance |-> Num(2400000),
        orbitalPeriod |-> Frac(273, 10), spinPeriod |-> Frac(273, 10),
        radius |-> Num(1000), axis |-> Frac(15, 10)],
       [name |-> "Saturn's Rings", orbits |-> 5, spherical |-> FALSE,
        radius |-> Num(85000), axis |-> Num(27),
        texture |-> "textures/ringsRGBA.png", useLighting |-> FALSE] >>

ScenarioConfigs ==
    << [name |-> "Sun", origin |-> ZeroVec, spins |-> FALSE, orbitalPeriod |-> Zero],
       [name |-> "Star", origin |-> ZeroVec, spinPeriod |-> Num(4),
        spinsClockwise |-> TRUE],
       [name |-> "Planet", orbits |-> 1, orbitDistance |-> Num(5000000),
        orbitalPeriod |-> Num(10), spinPeriod |-> Num(2), axis |-> Num(30),
        shortcutKey |-> "1"],
       [name |-> "Saturn's Rings", orbits |-> 3, spherical |-> FALSE,
        orbitalPeriod |-> Num(7), spinPeriod |-> Num(3), orbitDistance |-> Num(100000),
        radius |-> Num(2000), useLighting |-> FALSE, spins |-> FALSE],
       [name |-> "Saturn's Rings", orbits |-> 2, spherical |-> FALSE,
        radius |-> Num(2000), useLighting |-> FALSE, spins |-> FALSE] >>

\* the values Math.random() returns while the registry is constructed
RandomStreams ==
    { << Frac(3, 4), Frac(2, 3), Frac(4, 5), Frac(2, 5) >> }

\* how many of the configs make their constructor call Math.random()
NumberOfDraws(cs) == Cardinality({k \in 1 .. Len(cs) : DrawsRandom(cs[k])})

Registries ==
    { Construct(ShippedConfigs, <<>>, stream) : stream \in RandomStreams }
      \cup { Construct(ScenarioConfigs, <<>>, stream) : stream \in RandomStreams }

(***************************************************************************)
(* AstronomicalObject: animation.  ss is the registry, i the body.         *)
(***************************************************************************)
\* a mutant of calculatePortionOf: the period is left out
calculatePortionOf_noPeriod(attribute, millisecondsSinceLastFrame, millisecondsPerDay) ==
    Over(Num(millisecondsSinceLastFrame), Num(millisecondsPerDay))

\* (Math.PI * 2) * ms / (millisecondsPerDay * attribute), in turns
calculatePortionOf(attribute, millisecondsSinceLastFrame, millisecondsPerDay) ==
    Over(Num(millisecondsSinceLastFrame), Times(Num(millisecondsPerDay), attribute))

\* a mutant of beforeOrbit: spinsClockwise is not consulted
beforeOrbit_oneDirection(o, translationMatrix) ==
    IF o.isNotFirstAnimationFrame
      THEN mat4_rotate(mat4_rotate(translationMatrix, Turns(Neg(o.lastSpinAngle)), WorldY),
                       Radians(-1), o.axisArray)
      ELSE translationMatrix

\* a mutant of beforeOrbit: nothing is ever undone
beforeOrbit_never(o, translationMatrix) == translationMatrix

beforeOrbit(o, translationMatrix) ==
    IF o.isNotFirstAnimationFrame
      THEN LET angle == IF o.spinsClockwise THEN o.lastSpinAngle
                                            ELSE Neg(o.lastSpinAngle)
           IN  mat4_rotate(mat4_rotate(translationMatrix, Turns(angle), WorldY),
                           Radians(-1), o.axisArray)
      ELSE translationMatrix

\* a mutant of afterOrbit: the re-spin is by this call's spin delta only
afterOrbit_spinDeltaOnly(o, spinAmount) ==
    LET angle == IF o.spinsClockwise THEN Neg(spinAmount) ELSE spinAmount
    IN  [o EXCEPT !.modelViewMatrix =
                      mat4_rotate(mat4_rotate(o.modelViewMatrix, Radians(1), o.axisArray),
                                  Turns(angle), WorldY),
                  !.isNotFirstAnimationFrame = TRUE]

afterOrbit(o, spinAmount) ==
    LET angle == IF o.spinsClockwise
                   THEN Minus(Neg(o.lastSpinAngle), spinAmount)
                   ELSE Plus(o.lastSpinAngle, spinAmount)
    IN  [o EXCEPT !.modelViewMatrix =
                      mat4_rotate(mat4_rotate(o.modelViewMatrix, Radians(1), o.axisArray),
                                  Turns(angle), WorldY),
                  !.isNotFirstAnimationFrame = TRUE]

\* a mutant of updateAttributes: the cumulative angle is assigned, not added to
updateAttributes_resets(o, orbitAmount, spinAmount) ==
    [o EXCEPT !.lastOrbitAngle = orbitAmount,
              !.cumulativeOrbitAngle = orbitAmount,
              !.lastSpinAngle = Plus(o.lastSpinAngle, spinAmount)]

\* a mutant of updateAttributes: a clockwise body's orbit delta is subtracted
updateAttributes_clockwiseBackwards(o, orbitAmount, spinAmount) ==
    [o EXCEPT !.lastOrbitAngle = orbitAmount,
              !.cumulativeOrbitAngle =
                  Plus(o.cumulativeOrbitAngle,
                       IF o.spinsClockwise THEN Neg(orbitAmount) ELSE orbitAmount),
              !.lastSpinAngle = Plus(o.lastSpinAngle, spinAmount)]

\* a mutant of updateAttributes: the origin is moved along with the angles
updateAttributes_movesOrigin(o, orbitAmount, spinAmount) ==
    [o EXCEPT !.lastOrbitAngle = orbitAmount,
              !.cumulativeOrbitAngle = Plus(o.cumulativeOrbitAngle, orbitAmount),
              !.lastSpinAngle = Plus(o.lastSpinAngle, spinAmount),
              !.origin = <<@[1], @[2], Plus(@[3], orbitAmount)>>]

updateAttributes(o, orbitAmount, spinAmount) ==
    [o EXCEPT !.lastOrbitAngle = orbitAmount,
              !.cumulativeOrbitAngle = Plus(o.cumulativeOrbitAngle, orbitAmount),
              !.lastSpinAngle = Plus(o.lastSpinAngle, spinAmount)]

\* a mutant of OrbitNormalPlanet: step 5 moves out by the orbit distance only
OrbitNormalPlanet_shortReturn(o, t0, orbitAmount) ==
    LET d == o.distanceFromBodyWeAreOrbiting
        t3 == mat4_translate(t0, AlongZ(d))
        t4 == mat4_rotate(t3, Turns(orbitAmount), WorldY)
    IN  mat4_translate(t4, AlongZ(Neg(o.orbitDistance)))

\* the orbit step of a body whose orbited body orbits nothing
OrbitNormalPlanet(o, t0, orbitAmount) ==
    LET d == o.distanceFromBodyWeAreOrbiting
        t3 == mat4_translate(t0, AlongZ(d))
        t4 == mat4_rotate(t3, Turns(orbitAmount), WorldY)
    IN  mat4_translate(t4, AlongZ(Neg(d)))

\* a mutant of OrbitMoon: step 4 rotates by the orbited body's cumulative angle
OrbitMoon_parentCumulative(o, p, t0, orbitAmount) ==
    LET d == o.distanceFromBodyWeAreOrbiting
        pd == p.distanceFromBodyWeAreOrbiting
        t1 == mat4_translate(t0, AlongZ(d))
        t2 == mat4_rotate(t1, Turns(Neg(o.cumulativeOrbitAngle)), WorldY)
        t3 == mat4_translate(t2, AlongZ(pd))
        t4 == mat4_rotate(t3, Turns(p.cumulativeOrbitAngle), WorldY)
        t5 == mat4_translate(t4, AlongZ(Neg(pd)))
        t6 == mat4_rotate(t5, Turns(Plus(o.cumulativeOrbitAngle, orbitAmount)), WorldY)
    IN  mat4_translate(t6, AlongZ(Neg(d)))

\* the orbit step of a body whose orbited body p orbits something
OrbitMoon(o, p, t0, orbitAmount) ==
    LET d == o.distanceFromBodyWeAreOrbiting
        pd == p.distanceFromBodyWeAreOrbiting
        t1 == mat4_translate(t0, AlongZ(d))
        t2 == mat4_rotate(t1, Turns(Neg(o.cumulativeOrbitAngle)), WorldY)
        t3 == mat4_translate(t2, AlongZ(pd))
        t4 == mat4_rotate(t3, Turns(p.lastOrbitAngle), WorldY)
        t5 == mat4_translate(t4, AlongZ(Neg(pd)))
        t6 == mat4_rotate(t5, Turns(Plus(o.cumulativeOrbitAngle, orbitAmount)), WorldY)
    IN  mat4_translate(t6, AlongZ(Neg(d)))

\* a mutant of SpinRoot: the spins flag is not consulted
SpinRoot_ignoresFlag(o, spinAmount) ==
    [o EXCEPT !.modelViewMatrix =
        mat4_rotate(o.modelViewMatrix, Turns(spinAmount), WorldY)]

\* a mutant of SpinRoot: a clockwise body spins the other way
SpinRoot_signed(o, spinAmount) ==
    IF o.spins
      THEN [o EXCEPT !.modelViewMatrix =
               mat4_rotate(o.modelViewMatrix,
                           Turns(IF o.spinsClockwise THEN Neg(spinAmount) ELSE spinAmount),
                           WorldY)]
      ELSE o

\* the branch of animate for a body that orbits nothing
SpinRoot(o, spinAmount) ==
    IF o.spins
      THEN [o EXCEPT !.modelViewMatrix =
               mat4_rotate(o.modelViewMatrix, Turns(spinAmount), WorldY)]
      ELSE o

\* a mutant of animate: the rings take the branch of the normal planets
animate_ringsAsPlanets(ss, i, millisecondsPerDay, millisecondsSinceLastFrame) ==
    LET o == ss[i]
        orbitAmount == calculatePortionOf(o.orbitalPeriod, millisecondsSinceLastFrame,
                                          millisecondsPerDay)
        spinAmount == calculatePortionOf(o.spinPeriod, millisecondsSinceLastFrame,
                                         millisecondsPerDay)
        moved ==
            IF o.orbits # 0
              THEN LET t0 == beforeOrbit(o, mat4_create)
                       translationMatrix ==
                           IF ~OrbitsAnOrbiter(o, ss) \/ o.name = "Saturn's Rings"
                             THEN OrbitNormalPlanet(o, t0, orbitAmount)
                             ELSE OrbitMoon(o, ss[o.orbits], t0, orbitAmount)
                   IN  afterOrbit(
                           [o EXCEPT !.modelViewMatrix =
                                mat4_multiply(o.modelViewMatrix, translationMatrix)],
                           spinAmount)
            ELSE SpinRoot(o, spinAmount)
    IN  updateAttributes(moved, orbitAmount, spinAmount)

\* a mutant of animate: an orbiting body that does not spin is not re-spun
animate_spinsFlagForAll(ss, i, millisecondsPerDay, millisecondsSinceLastFrame) ==
    LET o == ss[i]
        orbitAmount == calculatePortionOf(o.orbitalPeriod, millisecondsSinceLastFrame,
                                          millisecondsPerDay)
        spinAmount == calculatePortionOf(o.spinPeriod, millisecondsSinceLastFrame,
                                         millisecondsPerDay)
        moved ==
            IF o.orbits # 0
              THEN LET t0 == IF o.spins THEN beforeOrbit(o, mat4_create) ELSE mat4_create
                       translationMatrix ==
                           IF ~OrbitsAnOrbiter(o, ss)
                             THEN OrbitNormalPlanet(o, t0, orbitAmount)
                             ELSE OrbitMoon(o, ss[o.orbits], t0, orbitAmount)
                       orbited == [o EXCEPT !.modelViewMatrix =
                                       mat4_multiply(o.modelViewMatrix, translationMatrix)]
                   IN  IF o.spins THEN afterOrbit(orbited, spinAmount) ELSE orbited
            ELSE SpinRoot(o, spinAmount)
    IN  updateAttributes(moved, orbitAmount, spinAmount)

animate(ss, i, millisecondsPerDay, millisecondsSinceLastFrame) ==
    LET o == ss[i]
        orbitAmount == calculatePortionOf(o.orbitalPeriod, millisecondsSinceLastFrame,
                                          millisecondsPerDay)
        spinAmount == calculatePortionOf(o.spinPeriod, millisecondsSinceLastFrame,
                                         millisecondsPerDay)
        moved ==
            IF o.orbits # 0
              THEN LET t0 == beforeOrbit(o, mat4_create)
                       translationMatrix ==
                           IF ~OrbitsAnOrbiter(o, ss)
                             THEN OrbitNormalPlanet(o, t0, orbitAmount)
                             ELSE OrbitMoon(o, ss[o.orbits], t0, orbitAmount)
                   IN  afterOrbit(
                           [o EXCEPT !.modelViewMatrix =
                                mat4_multiply(o.modelViewMatrix, translationMatrix)],
                           spinAmount)
            ELSE SpinRoot(o, spinAmount)
    IN  updateAttributes(moved, orbitAmount, spinAmount)

(***************************************************************************)
(* The state of the page.                                                  *)
(***************************************************************************)
VARIABLES
    SolarSystem,        \* the registry: the AstronomicalObjects, in order
    timeLastFrame,      \* app.js; 0 stands for false (both are falsy to !timeLastFrame)
    paused,             \* controls: the pause flag
    millisecondsPerDay, \* the value of the slider input
    cameraMatrix,       \* camera: the view matrix
    now,                \* Date.now()
    started,            \* startTheApp has been called
    pollTimers,         \* the pending setTimeout callbacks of the readiness poll
    frameCallbacks,     \* the pending requestAnimationFrame callbacks
    canvas,             \* what the last draw() handed to the shaders, and who called it
    constructed,        \* the registry as construction left it
    advances,           \* the <<elapsed, rate>> pairs handed to animate, in order
    lastFrame,          \* the previous frame callback: its kind and time
    beforePause,        \* the time of, and the registry before, the first of the
                        \* paused frames that the previous frame callback belongs to
    configs,            \* solar_system.js: the configs, in the order of construction
    random,             \* the values Math.random() has returned, in order
    latitudeBands,      \* _getIndexData: its arguments and locals while a call
    longitudeBands,     \* is under way, 0 and empty otherwise
    latNumber,
    longNumber,
    indexData

\* what belongs to the construction of the registry and of a sphere's buffers;
\* the callbacks of the page do not touch it
ofConstruction ==
    <<configs, random, latitudeBands, longitudeBands, latNumber, longNumber, indexData>>

vars == <<SolarSystem, timeLastFrame, paused, millisecondsPerDay, cameraMatrix, now,
          started, pollTimers, frameCallbacks, canvas, constructed, advances,
          lastFrame, beforePause, configs, random, latitudeBands, longitudeBands,
          latNumber, longNumber, indexData>>

Bodies == 1 .. Len(SolarSystem)

\* the last instant the model's clock reaches
LastNow == StartNow + MaxTicks * 500

\* camera.js init(): moveCameraToStartingPosition
moveCameraToStartingPosition == mat4_translate(mat4_create, AlongZ(Num(-5000)))

\* app.init() has run: no image has loaded yet, so the poll armed its timer
Init ==
    /\ SolarSystem \in Registries
    /\ \E cs \in {ShippedConfigs, ScenarioConfigs}, stream \in RandomStreams :
           /\ SolarSystem = Construct(cs, <<>>, stream)
           /\ configs = cs
           /\ random = SubSeq(stream, 1, NumberOfDraws(cs))
    /\ latitudeBands = 0
    /\ longitudeBands = 0
    /\ latNumber = 0
    /\ longNumber = 0
    /\ indexData = <<>>
    /\ timeLastFrame = 0
    /\ paused = FALSE
    /\ millisecondsPerDay = 1000
    /\ cameraMatrix = moveCameraToStartingPosition
    /\ now = StartNow
    /\ started = FALSE
    /\ pollTimers = 1
    /\ frameCallbacks = 0
    /\ canvas = [by |-> "nobody", camera |-> <<>>, mvMatrix |-> <<>>]
    /\ constructed = SolarSystem
    /\ advances = <<>>
    /\ lastFrame = [kind |-> "none", at |-> 0]
    /\ beforePause = [at |-> 0, bodies |-> <<>>]

(***************************************************************************)
(* app.js                                                                  *)
(***************************************************************************)
\* a mutant of allAssetsDownloaded: one ready body is enough
allAssetsDownloaded_any(ss) == \E i \in 1 .. Len(ss) : ss[i].isReady

\* the loop of waitUntilAssetsDownloadedThen
allAssetsDownloaded(ss) == \A i \in 1 .. Len(ss) : ss[i].isReady

\* a mutant of millisecondsSinceLastFrame: no baseline is taken
millisecondsSinceLastFrame_noBaseline(tlf, timeThisFrame) == timeThisFrame - tlf

\* millisecondsSinceLastFrame(): the value returned; timeLastFrame becomes timeThisFrame
millisecondsSinceLastFrame(tlf, timeThisFrame) ==
    LET last == IF tlf = 0 THEN timeThisFrame ELSE tlf
    IN  timeThisFrame - last

\* a mutant of AnimateFrom: the loop runs from the last body to the first
RECURSIVE AnimateFrom_lastFirst(_, _, _, _)
AnimateFrom_lastFirst(ss, i, mpd, deltaT) ==
    IF i > Len(ss) THEN ss
    ELSE CHOOSE result \in
             { AnimateFrom_lastFirst(next, i + 1, mpd, deltaT) :
                   next \in {[ss EXCEPT ![Len(ss) + 1 - i] =
                                 animate(ss, Len(ss) + 1 - i, mpd, deltaT)]} } : TRUE

\* the loop of animate(millisecondsPerDay): bodies i .. Len(ss), in order.
\* (The registry after body i is bound as a value before the loop goes on.)
RECURSIVE AnimateFrom(_, _, _, _)
AnimateFrom(ss, i, mpd, deltaT) ==
    IF i > Len(ss) THEN ss
    ELSE CHOOSE result \in
             { AnimateFrom(next, i + 1, mpd, deltaT) :
                   next \in {[ss EXCEPT ![i] = animate(ss, i, mpd, deltaT)]} } : TRUE

app_animate(ss, mpd, deltaT) == AnimateFrom(ss, 1, mpd, deltaT)

\* draw(): every body's modelViewMatrix goes to the shaders with the camera's matrix
draw(ss, camera, caller) ==
    [by |-> caller, camera |-> camera,
     mvMatrix |-> [i \in 1 .. Len(ss) |-> ss[i].modelViewMatrix]]

\* a mutant of run: draw is called inside the loop of animate, before the call
\* on each body, so that the last draw precedes the last body's animate call
run_drawsInsideLoop(ss, tlf, isPaused, mpd, timeThisFrame, camera, cv) ==
    IF isPaused
      THEN [SolarSystem |-> ss, timeLastFrame |-> 0, canvas |-> cv, elapsed |-> <<>>]
      ELSE LET deltaT == millisecondsSinceLastFrame(tlf, timeThisFrame)
           IN  [SolarSystem |-> app_animate(ss, mpd, deltaT),
                timeLastFrame |-> timeThisFrame,
                canvas |-> draw([app_animate(ss, mpd, deltaT) EXCEPT ![Len(ss)] = ss[Len(ss)]],
                                camera, "frame"),
                elapsed |-> <<deltaT>>]

\* a mutant of run: the pause flag is not consulted
run_animatesWhilePaused(ss, tlf, isPaused, mpd, timeThisFrame, camera, cv) ==
    LET deltaT == millisecondsSinceLastFrame(tlf, timeThisFrame)
    IN  [SolarSystem |-> app_animate(ss, mpd, deltaT),
         timeLastFrame |-> timeThisFrame,
         canvas |-> draw(ss, camera, "frame"),
         elapsed |-> <<deltaT>>]

\* a mutant of run: animate is called before draw
run_drawsLast(ss, tlf, isPaused, mpd, timeThisFrame, camera, cv) ==
    IF isPaused
      THEN [SolarSystem |-> ss, timeLastFrame |-> 0, canvas |-> cv, elapsed |-> <<>>]
      ELSE LET deltaT == millisecondsSinceLastFrame(tlf, timeThisFrame)
               animated == app_animate(ss, mpd, deltaT)
           IN  [SolarSystem |-> animated,
                timeLastFrame |-> timeThisFrame,
                canvas |-> draw(animated, camera, "frame"),
                elapsed |-> <<deltaT>>]

\* a mutant of run: a paused frame leaves timeLastFrame as it is
run_keepsTimeWhilePaused(ss, tlf, isPaused, mpd, timeThisFrame, camera, cv) ==
    IF isPaused
      THEN [SolarSystem |-> ss, timeLastFrame |-> tlf, canvas |-> cv, elapsed |-> <<>>]
      ELSE LET deltaT == millisecondsSinceLastFrame(tlf, timeThisFrame)
           IN  [SolarSystem |-> app_animate(ss, mpd, deltaT),
                timeLastFrame |-> timeThisFrame,
                canvas |-> draw(ss, camera, "frame"),
                elapsed |-> <<deltaT>>]

\* the body of run() after requestAnimationFrame(run): what it leaves in the
\* registry, in timeLastFrame and on the canvas, and the elapsed time it handed
\* to animate (none when paused)
run(ss, tlf, isPaused, mpd, timeThisFrame, camera, cv) ==
    IF isPaused
      THEN [SolarSystem |-> ss, timeLastFrame |-> 0, canvas |-> cv, elapsed |-> <<>>]
      ELSE LET deltaT == millisecondsSinceLastFrame(tlf, timeThisFrame)
           IN  [SolarSystem |-> app_animate(ss, mpd, deltaT),
                timeLastFrame |-> timeThisFrame,
                canvas |-> draw(ss, camera, "frame"),
                elapsed |-> <<deltaT>>]

\* one call of run(): a new frame callback is requested, then the body runs
Frame ==
    \E f \in { run(SolarSystem, timeLastFrame, paused, millisecondsPerDay, now,
                   cameraMatrix, canvas) } :
        /\ SolarSystem' = f.SolarSystem
        /\ timeLastFrame' = f.timeLastFrame
        /\ canvas' = f.canvas
        /\ advances' = IF f.elapsed = <<>> THEN advances
                       ELSE Append(advances, <<f.elapsed[1], millisecondsPerDay>>)
        /\ lastFrame' = [kind |-> IF paused THEN "paused" ELSE "unpaused", at |-> now]
        /\ beforePause' = IF ~paused THEN [at |-> 0, bodies |-> <<>>]
                          ELSE IF lastFrame.kind = "paused" THEN beforePause
                          ELSE [at |-> now, bodies |-> SolarSystem]

\* a mutant of PollTimer: the poll is not armed again
PollTimer_givesUp ==
    /\ UNCHANGED ofConstruction
    /\ pollTimers > 0
    /\ IF allAssetsDownloaded(SolarSystem)
         THEN /\ pollTimers' = pollTimers - 1
              /\ started' = TRUE
              /\ frameCallbacks' = frameCallbacks + 1
              /\ Frame
              /\ UNCHANGED <<paused, millisecondsPerDay, cameraMatrix, now, constructed>>
         ELSE /\ pollTimers' = pollTimers - 1
              /\ UNCHANGED <<SolarSystem, timeLastFrame, paused, millisecondsPerDay,
                             cameraMatrix, now, started, frameCallbacks, canvas,
                             constructed, advances, lastFrame, beforePause>>

\* a mutant of PollTimer: the poll is armed again after the app was started
PollTimer_keepsPolling ==
    /\ UNCHANGED ofConstruction
    /\ pollTimers > 0
    /\ IF allAssetsDownloaded(SolarSystem)
         THEN /\ pollTimers' = pollTimers - 1 + 1
              /\ started' = TRUE
              /\ frameCallbacks' = frameCallbacks + 1
              /\ Frame
              /\ UNCHANGED <<paused, millisecondsPerDay, cameraMatrix, now, constructed>>
         ELSE /\ pollTimers' = pollTimers - 1 + 1
              /\ UNCHANGED <<SolarSystem, timeLastFrame, paused, millisecondsPerDay,
                             cameraMatrix, now, started, frameCallbacks, canvas,
                             constructed, advances, lastFrame, beforePause>>

\* the readiness poll fires (after 25 ms): waitUntilAssetsDownloadedThen(callback),
\* where the callback is startTheApp, which binds the controls and calls run()
PollTimer ==
    /\ UNCHANGED ofConstruction
    /\ pollTimers > 0
    /\ IF allAssetsDownloaded(SolarSystem)
         THEN /\ pollTimers' = pollTimers - 1
              /\ started' = TRUE
              /\ frameCallbacks' = frameCallbacks + 1
              /\ Frame
              /\ UNCHANGED <<paused, millisecondsPerDay, cameraMatrix, now, constructed>>
         ELSE /\ pollTimers' = pollTimers - 1 + 1
              /\ UNCHANGED <<SolarSystem, timeLastFrame, paused, millisecondsPerDay,
                             cameraMatrix, now, started, frameCallbacks, canvas,
                             constructed, advances, lastFrame, beforePause>>

\* a frame callback fires: run()
AnimationFrame ==
    /\ UNCHANGED ofConstruction
    /\ frameCallbacks > 0
    /\ paused \/ Len(advances) < MaxFrames
    /\ frameCallbacks' = frameCallbacks - 1 + 1
    /\ Frame
    /\ UNCHANGED <<paused, millisecondsPerDay, cameraMatrix, now, started, pollTimers,
                   constructed>>

(***************************************************************************)
(* The environment: images, the clock, the keyboard and the slider.        *)
(***************************************************************************)
\* texture.image.onload of initTexture(imageSrc, imageProperty): handleLoadedTexture
handleLoadedTexture(o, imageProperty) ==
    IF imageProperty = "texture"
      THEN [o EXCEPT !.texture = TRUE, !.isReady = TRUE]
      ELSE [o EXCEPT !.specularTexture = TRUE, !.isReady = TRUE]

\* the images initTextures asked for
Requested(o, imageProperty) ==
    IF imageProperty = "texture" THEN o.textureImage # ""
                                 ELSE o.specularTextureImage # ""

Loaded(o, imageProperty) ==
    IF imageProperty = "texture" THEN o.texture ELSE o.specularTexture

\* an image finishes downloading; it may also never do so
ImageLoaded(i, imageProperty) ==
    /\ UNCHANGED ofConstruction
    /\ Requested(SolarSystem[i], imageProperty)
    /\ ~Loaded(SolarSystem[i], imageProperty)
    /\ SolarSystem' = [SolarSystem EXCEPT ![i] = handleLoadedTexture(@, imageProperty)]
    /\ UNCHANGED <<timeLastFrame, paused, millisecondsPerDay, cameraMatrix, now, started,
                   pollTimers, frameCallbacks, canvas, constructed, advances, lastFrame,
                   beforePause>>

\* time passes; nothing reads the clock before the first frame callback
Tick(e) ==
    /\ UNCHANGED ofConstruction
    /\ started
    /\ now + e <= LastNow
    /\ now' = now + e
    /\ UNCHANGED <<SolarSystem, timeLastFrame, paused, millisecondsPerDay, cameraMatrix,
                   started, pollTimers, frameCallbacks, canvas, constructed, advances,
                   lastFrame, beforePause>>

\* Mousetrap 'p'; the keys are bound by startTheApp
KeyP ==
    /\ UNCHANGED ofConstruction
    /\ started
    /\ paused' = ~paused
    /\ UNCHANGED <<SolarSystem, timeLastFrame, millisecondsPerDay, cameraMatrix, now,
                   started, pollTimers, frameCallbacks, canvas, constructed, advances,
                   lastFrame, beforePause>>

\* camera.snapTo(planet)
snapTo(planet) ==
    LET c1 == mat4_translate(mat4_create, planet.origin)
        c2 == mat4_translate(c1, AlongZ(Neg(Times(planet.radius, Num(5)))))
        c3 == mat4_rotate(c2, Turns(Neg(planet.cumulativeOrbitAngle)), WorldY)
    IN  mat4_rotate(c3, Turns(Frac(1, 2)), WorldY)

\* Mousetrap: the shortcut key of body i; then triggerAnimation, which is draw
KeyPlanet(i) ==
    /\ UNCHANGED ofConstruction
    /\ started
    /\ SolarSystem[i].shortcutKey # ""
    /\ cameraMatrix' = snapTo(SolarSystem[i])
    /\ canvas' = draw(SolarSystem, cameraMatrix', "input")
    /\ UNCHANGED <<SolarSystem, timeLastFrame, paused, millisecondsPerDay, now, started,
                   pollTimers, frameCallbacks, constructed, advances, lastFrame,
                   beforePause>>

\* Mousetrap 'r': camera.resetPosition, then triggerAnimation
KeyR ==
    /\ UNCHANGED ofConstruction
    /\ started
    /\ cameraMatrix' = moveCameraToStartingPosition
    /\ canvas' = draw(SolarSystem, cameraMatrix', "input")
    /\ UNCHANGED <<SolarSystem, timeLastFrame, paused, millisecondsPerDay, now, started,
                   pollTimers, frameCallbacks, constructed, advances, lastFrame,
                   beforePause>>

\* slider.oninput of the millisecondsPerDay slider, then triggerAnimation
SliderInput(v) ==
    /\ UNCHANGED ofConstruction
    /\ started
    /\ v # millisecondsPerDay
    /\ millisecondsPerDay' = v
    /\ canvas' = draw(SolarSystem, cameraMatrix, "input")
    /\ UNCHANGED <<SolarSystem, timeLastFrame, paused, cameraMatrix, now, started,
                   pollTimers, frameCallbacks, constructed, advances, lastFrame,
                   beforePause>>

Next ==
    \/ PollTimer
    \/ AnimationFrame
    \/ \E i \in Bodies, imageProperty \in {"texture", "specularTexture"} :
           ImageLoaded(i, imageProperty)
    \/ \E e \in Elapses : Tick(e)
    \/ KeyP
    \/ \E i \in Bodies : KeyPlanet(i)
    \/ KeyR
    \/ \E v \in SliderValues : SliderInput(v)

Spec == Init /\ [][Next]_vars

\* setTimeout callbacks do fire
LiveSpec == Spec /\ WF_vars(PollTimer)

(***************************************************************************)
(* The construction of the registry, one constructor call per step, with   *)
(* Math.random() returning any of a few values, and nothing else of the    *)
(* page under way yet.  (Math.random() returns a value in [0, 1); the      *)
(* value 0, whose quotient is Infinity, is left out.)                      *)
(***************************************************************************)
\* the values Math.random() may return
RandomValues == { Frac(3, 4), Frac(2, 5), Frac(1, 3) }

\* the module body of solar_system.js is about to run
ConstructionInit ==
    /\ configs \in {ShippedConfigs, ScenarioConfigs}
    /\ SolarSystem = <<>>
    /\ random = <<>>
    /\ constructed = <<>>
    /\ timeLastFrame = 0
    /\ paused = FALSE
    /\ millisecondsPerDay = 1000
    /\ cameraMatrix = moveCameraToStartingPosition
    /\ now = StartNow
    /\ started = FALSE
    /\ pollTimers = 0
    /\ frameCallbacks = 0
    /\ canvas = [by |-> "nobody", camera |-> <<>>, mvMatrix |-> <<>>]
    /\ advances = <<>>
    /\ lastFrame = [kind |-> "none", at |-> 0]
    /\ beforePause = [at |-> 0, bodies |-> <<>>]
    /\ latitudeBands = 0
    /\ longitudeBands = 0
    /\ latNumber = 0
    /\ longNumber = 0
    /\ indexData = <<>>

\* new AstronomicalObject(config) for the next config of solar_system.js;
\* u is what Math.random() returns if the constructor calls it
NewAstronomicalObject(u) ==
    /\ Len(SolarSystem) < Len(configs)
    /\ \E config \in {configs[Len(SolarSystem) + 1]} :
           /\ random' = IF DrawsRandom(config) THEN Append(random, u) ELSE random
           /\ SolarSystem' = Append(SolarSystem, AstronomicalObject(config, SolarSystem, u))
    /\ constructed' = SolarSystem'
    /\ UNCHANGED <<timeLastFrame, paused, millisecondsPerDay, cameraMatrix, now, started,
                   pollTimers, frameCallbacks, canvas, advances, lastFrame, beforePause,
                   configs, latitudeBands, longitudeBands, latNumber, longNumber,
                   indexData>>

ConstructionNext == \E u \in RandomValues : NewAstronomicalObject(u)

ConstructionSpec == ConstructionInit /\ [][ConstructionNext]_vars

(***************************************************************************)
(* buffers: one call of _getIndexData(latitudeBands, longitudeBands), one  *)
(* pass of the inner loop per step, with nothing else of the page under    *)
(* way.                                                                    *)
(***************************************************************************)
\* the numbers of bands the function is called with
BandCounts == (1 .. MaxBands) \cup {ShippedBands}

\* initSphericalBuffers: the vertices its two loops push, which is what
\* vertexPositionBuffer.numItems becomes
numItems(latBands, longBands) == (latBands + 1) * (longBands + 1)

\* new Uint16Array(indexData): each element modulo 2^16
Uint16Array(data) == [k \in 1 .. Len(data) |-> data[k] % 65536]

\* the call has just been made
MeshInit ==
    /\ latitudeBands \in BandCounts
    /\ longitudeBands \in BandCounts
    /\ latNumber = 0
    /\ longNumber = 0
    /\ indexData = <<>>
    /\ configs = <<>>
    /\ SolarSystem = <<>>
    /\ random = <<>>
    /\ constructed = <<>>
    /\ timeLastFrame = 0
    /\ paused = FALSE
    /\ millisecondsPerDay = 1000
    /\ cameraMatrix = moveCameraToStartingPosition
    /\ now = StartNow
    /\ started = FALSE
    /\ pollTimers = 0
    /\ frameCallbacks = 0
    /\ canvas = [by |-> "nobody", camera |-> <<>>, mvMatrix |-> <<>>]
    /\ advances = <<>>
    /\ lastFrame = [kind |-> "none", at |-> 0]
    /\ beforePause = [at |-> 0, bodies |-> <<>>]

\* a mutant of PushIndices: the next row is taken to start one vertex later
PushIndices_wideRows ==
    /\ latNumber < latitudeBands
    /\ longNumber < longitudeBands
    /\ \E first \in {(latNumber * (longitudeBands + 1)) + longNumber} :
           \E second \in {first + longitudeBands + 2} :
               indexData' = indexData \o <<first, second, first + 1,
                                           second, second + 1, first + 1>>
    /\ longNumber' = longNumber + 1
    /\ UNCHANGED <<latitudeBands, longitudeBands, latNumber, SolarSystem, timeLastFrame,
                   paused, millisecondsPerDay, cameraMatrix, now, started, pollTimers,
                   frameCallbacks, canvas, constructed, advances, lastFrame, beforePause,
                   configs, random>>

\* the body of the inner loop, and longNumber++
PushIndices ==
    /\ latNumber < latitudeBands
    /\ longNumber < longitudeBands
    /\ \E first \in {(latNumber * (longitudeBands + 1)) + longNumber} :
           \E second \in {first + longitudeBands + 1} :
               indexData' = indexData \o <<first, second, first + 1,
                                           second, second + 1, first + 1>>
    /\ longNumber' = longNumber + 1
    /\ UNCHANGED <<latitudeBands, longitudeBands, latNumber, SolarSystem, timeLastFrame,
                   paused, millisecondsPerDay, cameraMatrix, now, started, pollTimers,
                   frameCallbacks, canvas, constructed, advances, lastFrame, beforePause,
                   configs, random>>

\* the inner loop ends: latNumber++, and longNumber = 0 if the outer loop goes on
NextLatitudeBand ==
    /\ latNumber < latitudeBands
    /\ longNumber >= longitudeBands
    /\ latNumber' = latNumber + 1
    /\ longNumber' = IF latNumber + 1 < latitudeBands THEN 0 ELSE longNumber
    /\ UNCHANGED <<latitudeBands, longitudeBands, indexData, SolarSystem, timeLastFrame,
                   paused, millisecondsPerDay, cameraMatrix, now, started, pollTimers,
                   frameCallbacks, canvas, constructed, advances, lastFrame, beforePause,
                   configs, random>>

MeshNext == PushIndices \/ NextLatitudeBand

MeshSpec == MeshInit /\ [][MeshNext]_vars

(***************************************************************************)
(* Properties.                                                             *)
(***************************************************************************)
AngleFields(o) ==
    <<o.modelViewMatrix, o.lastOrbitAngle, o.cumulativeOrbitAngle, o.lastSpinAngle>>

Mats == [i \in Bodies |-> SolarSystem[i].modelViewMatrix]

AllReady == \A i \in Bodies : SolarSystem[i].isReady

IsRoot(o) == o.orbits = 0

\* elapsed / (rate * period), in turns, for a period p = <<n, d>>
Delta(elapsed, rate, p) == Frac(elapsed * p[2], rate * p[1])

\* a step is an unpaused frame exactly when it adds to the log of advances
UnpausedFrameStep == advances' # advances
LastElapsed == advances[Len(advances)][1]
LastRate == advances[Len(advances)][2]

\* C1: while the frame callbacks find the pause flag set, however many of them
\* run, every body's modelViewMatrix, lastOrbitAngle, cumulativeOrbitAngle and
\* lastSpinAngle are what they were before the first of those callbacks.
PauseIdempotent ==
    lastFrame.kind = "paused" =>
        \A i \in Bodies :
            AngleFields(SolarSystem[i]) = AngleFields(beforePause.bodies[i])

\* two paused frames at different instants, after the bodies had been advanced
PausedTwice ==
    /\ lastFrame.kind = "paused"
    /\ lastFrame.at > beforePause.at
    /\ Len(advances) >= 1
    /\ Len(SolarSystem) = 7

\* C2: the elapsed time an unpaused frame hands to animate is 0 when it is the
\* first frame or the previous frame was paused, and otherwise the clock's
\* difference to the previous unpaused frame.
ElapsedSinceLastUnpausedFrame ==
    [][UnpausedFrameStep =>
          LastElapsed' = IF lastFrame.kind = "unpaused" THEN now - lastFrame.at
                                                       ELSE 0]_vars

\* an unpaused frame right after a paused one, later than the first frame
ResumedWithZeroElapsed ==
    /\ Len(advances) = 2
    /\ LastElapsed = 0
    /\ lastFrame = [kind |-> "unpaused", at |-> now]
    /\ now > StartNow

StartedOnlyWhenAllReady ==
    (started \/ frameCallbacks > 0 \/ advances # <<>> \/ canvas.by # "nobody")
        => \A i \in Bodies : SolarSystem[i].isReady

\* the gate has opened for the seven-body registry
GateOpened ==
    /\ started
    /\ frameCallbacks = 1
    /\ Len(advances) >= 1
    /\ Len(SolarSystem) = 7

\* C5: isReady is true only once every image the body asked for has loaded.
ReadyOnlyWhenAllTexturesLoaded ==
    \A i \in Bodies :
        SolarSystem[i].isReady =>
            \A imageProperty \in {"texture", "specularTexture"} :
                Requested(SolarSystem[i], imageProperty)
                    => Loaded(SolarSystem[i], imageProperty)

\* C6: once every body is ready the frame loop starts; as long as some body
\* is not, the loop has not started and exactly one poll is pending.
GateLiveness ==
    /\ AllReady ~> started
    /\ [](~AllReady => (~started /\ pollTimers = 1 /\ frameCallbacks = 0))

\* every body is ready and the poll has not fired yet
GateAboutToOpen ==
    /\ AllReady
    /\ ~started
    /\ pollTimers = 1

\* C7: a body that orbits nothing and does not spin keeps the modelViewMatrix
\* of its construction.
RootWithoutSpinNeverMoves ==
    \A i \in Bodies :
        (IsRoot(SolarSystem[i]) /\ ~SolarSystem[i].spins)
            => SolarSystem[i].modelViewMatrix = constructed[i].modelViewMatrix

\* such a body has been advanced twice, the second time with time elapsed
RootWithoutSpinAdvanced ==
    /\ Len(advances) = 2
    /\ LastElapsed > 0
    /\ \E i \in Bodies : IsRoot(SolarSystem[i]) /\ ~SolarSystem[i].spins

\* C8: one animate call on a spinning body that orbits nothing multiplies its
\* modelViewMatrix by one rotation about world Y of elapsed / (rate * spinPeriod)
\* of a turn, whatever spinsClockwise is, and the matrix holds nothing else.
OnlyYRotation(m) ==
    \/ m = <<>>
    \/ Len(m) = 1 /\ m[1][1] = "R" /\ m[1][2] = WorldY /\ m[1][3].r = 0

RECURSIVE SumOfDeltas(_, _)
SumOfDeltas(log, p) ==
    IF log = <<>> THEN Zero
    ELSE Plus(Delta(Head(log)[1], Head(log)[2], p), SumOfDeltas(Tail(log), p))

FrameDeltas ==
    [][UnpausedFrameStep =>
          \A i \in Bodies :
              LET o == SolarSystem[i]
                  n == SolarSystem'[i]
                  orbitDelta == Delta(LastElapsed', LastRate', o.orbitalPeriod)
                  spinDelta == Delta(LastElapsed', LastRate', o.spinPeriod)
              IN  /\ n.lastOrbitAngle = orbitDelta
                  /\ Minus(n.cumulativeOrbitAngle, o.cumulativeOrbitAngle) = orbitDelta
                  /\ Minus(n.lastSpinAngle, o.lastSpinAngle) = spinDelta
                  /\ (/\ o.orbitalPeriod = Num(10)
                      /\ o.spinPeriod = Num(2)
                      /\ LastElapsed' = 500
                      /\ LastRate' = 1000)
                       => /\ n.lastOrbitAngle = Frac(1, 20)
                          /\ Minus(n.cumulativeOrbitAngle, o.cumulativeOrbitAngle)
                                 = Frac(1, 20)
                          /\ Minus(n.lastSpinAngle, o.lastSpinAngle) = Frac(1, 4)]_vars

\* the planet with periods 10 and 2 after its second animate call, which was
\* handed 500 ms at rate 1000
ScenarioPlanetAdvanced ==
    /\ Len(advances) = 2
    /\ advances[2] = <<500, 1000>>
    /\ \E i \in Bodies :
           /\ SolarSystem[i].orbitalPeriod = Num(10)
           /\ SolarSystem[i].spinPeriod = Num(2)
           /\ SolarSystem[i].lastOrbitAngle = Frac(1, 20)
           /\ SolarSystem[i].lastSpinAngle = Frac(1, 4)

(***************************************************************************)
(* World positions.  A matrix applied to the origin point is the sum of    *)
(* its translations, each turned by the rotations to its left.  For a word *)
(* whose translations are along Z and have only world-Y rotations to their *)
(* left, the position is a sum of terms z * RotY(a) * (0, 0, 1), kept as a *)
(* set of pairs <<a, z>> with 0 <= a < 1/2 (half a turn changes the sign), *)
(* one pair per angle and none with z = 0.                                 *)
(***************************************************************************)
Half == Frac(1, 2)

PosTerm(a, z) ==
    CHOOSE t \in { IF 2 * x[1] >= x[2] THEN <<Minus(x, Half), Neg(z)>> ELSE <<x, z>> :
                   x \in {Mod1(a)} } : TRUE

\* the sum of two positions
RECURSIVE PosPlus(_, _)
PosPlus(p, q) ==
    IF q = {} THEN p
    ELSE CHOOSE out \in
           { PosPlus(
                 IF \E s \in p : s[1] = t[1]
                   THEN { IF s[1] = t[1] THEN <<s[1], Plus(s[2], t[2])>> ELSE s : s \in p }
                            \ { <<t[1], Zero>> }
                   ELSE p \cup ({t} \ { <<t[1], Zero>> }),
                 q \ {t}) : t \in { CHOOSE u \in q : TRUE } } : TRUE

\* factors k .. Len(m) of the word m, with the world-Y rotation a to their
\* left; known turns FALSE when a translation that is not along Z, or one with
\* another rotation to its left, is met
RECURSIVE PositionFrom(_, _, _, _, _)
PositionFrom(m, k, a, pure, pos) ==
    IF k > Len(m) THEN pos
    ELSE CHOOSE out \in
           { IF f[1] = "R"
               THEN IF f[2] = WorldY /\ f[3].r = 0
                      THEN PositionFrom(m, k + 1, Plus(a, f[3].t), pure, pos)
                      ELSE PositionFrom(m, k + 1, a, FALSE, pos)
               ELSE IF pure /\ IsZero(f[2][1]) /\ IsZero(f[2][2])
                      THEN PositionFrom(m, k + 1, a, pure,
                               [pos EXCEPT !.terms = PosPlus(@, {PosTerm(a, f[2][3])})])
                      ELSE PositionFrom(m, k + 1, a, pure, [pos EXCEPT !.known = FALSE])
             : f \in {m[k]} } : TRUE

\* the matrix m applied to the origin point
WorldPosition(m) == PositionFrom(m, 1, Zero, TRUE, [known |-> TRUE, terms |-> {}])

\* the offset (0, 0, z) rotated about world Y by a, added to the position p
OffsetFrom(p, a, z) == [p EXCEPT !.terms = PosPlus(@, {PosTerm(a, z)})]

\* body i orbits a body that orbits a root at the origin
IsMoonOfPlanetOfSunAtOrigin(i) ==
    /\ OrbitsAnOrbiter(SolarSystem[i], SolarSystem)
    /\ SolarSystem[SolarSystem[i].orbits].orbits # 0
    /\ SolarSystem[SolarSystem[SolarSystem[i].orbits].orbits].orbits = 0
    /\ SolarSystem[SolarSystem[SolarSystem[i].orbits].orbits].origin = ZeroVec

\* C11 as written: after the planet and then the moon were advanced, the
\* moon's world position is the planet's new world position plus the offset
\* (0, 0, -distance) rotated about world Y by the moon's cumulativeOrbitAngle.
MoonOffsetTurnedByOwnAngle ==
    \A i \in Bodies :
        (IsMoonOfPlanetOfSunAtOrigin(i) /\ advances # <<>>) =>
            LET moon == SolarSystem[i]
                planet == SolarSystem[moon.orbits]
            IN  WorldPosition(moon.modelViewMatrix) =
                    OffsetFrom(WorldPosition(planet.modelViewMatrix),
                               moon.cumulativeOrbitAngle,
                               Neg(moon.distanceFromBodyWeAreOrbiting))

\* C11 as amended: the offset is rotated by the sum of the planet's and the
\* moon's cumulativeOrbitAngle, the moon's matrix being composed inside the
\* planet's rotated frame; both positions are known.
MoonOffsetTurnedByBothAngles ==
    \A i \in Bodies :
        (IsMoonOfPlanetOfSunAtOrigin(i) /\ advances # <<>>) =>
            LET moon == SolarSystem[i]
                planet == SolarSystem[moon.orbits]
            IN  /\ WorldPosition(moon.modelViewMatrix).known
                /\ WorldPosition(moon.modelViewMatrix) =
                       OffsetFrom(WorldPosition(planet.modelViewMatrix),
                                  Plus(planet.cumulativeOrbitAngle,
                                       moon.cumulativeOrbitAngle),
                                  Neg(moon.distanceFromBodyWeAreOrbiting))

\* a moon at a distance from its planet, both advanced twice, the second time
\* with time elapsed
MoonAdvancedAfterPlanet ==
    /\ Len(advances) = 2
    /\ LastElapsed > 0
    /\ \E i \in Bodies :
           /\ IsMoonOfPlanetOfSunAtOrigin(i)
           /\ ~IsZero(SolarSystem[i].distanceFromBodyWeAreOrbiting)
           /\ ~IsZero(SolarSystem[i].lastOrbitAngle)
           /\ ~IsZero(SolarSystem[SolarSystem[i].orbits].lastOrbitAngle)

\* the steps of one animate call, composed one after the other on a matrix m
IsRings(o) == o.name = "Saturn's Rings"

SignedSpin(o, angle) == IF o.spinsClockwise THEN Neg(angle) ELSE angle

Unspun(o) ==
    IF o.isNotFirstAnimationFrame
      THEN mat4_rotate(mat4_rotate(o.modelViewMatrix,
                                   Turns(Neg(SignedSpin(o, o.lastSpinAngle))), WorldY),
                       Radians(-1), o.axisArray)
      ELSE o.modelViewMatrix

Respun(m, o, spinAngle) ==
    mat4_rotate(mat4_rotate(m, Radians(1), o.axisArray),
                Turns(SignedSpin(o, spinAngle)), WorldY)

ThreeSteps(m, d, orbitDelta) ==
    mat4_translate(mat4_rotate(mat4_translate(m, AlongZ(d)), Turns(orbitDelta), WorldY),
                   AlongZ(Neg(d)))

SevenSteps(m, d, cumulative, pd, pLast, orbitDelta) ==
    mat4_translate(
        mat4_rotate(
            mat4_translate(
                mat4_rotate(
                    mat4_translate(
                        mat4_rotate(mat4_translate(m, AlongZ(d)),
                                    Turns(Neg(cumulative)), WorldY),
                        AlongZ(pd)),
                    Turns(pLast), WorldY),
                AlongZ(Neg(pd))),
            Turns(Plus(cumulative, orbitDelta)), WorldY),
        AlongZ(Neg(d)))

\* what an animate call leaves in body i's matrix when its orbit step is the
\* three-step one, and when it is the seven-step one
AfterThreeSteps(i) ==
    LET o == SolarSystem[i]
    IN  Respun(ThreeSteps(Unspun(o), o.distanceFromBodyWeAreOrbiting,
                          Delta(LastElapsed', LastRate', o.orbitalPeriod)),
               o,
               Plus(o.lastSpinAngle, Delta(LastElapsed', LastRate', o.spinPeriod)))

AfterSevenSteps(i) ==
    LET o == SolarSystem[i]
    IN  Respun(SevenSteps(Unspun(o), o.distanceFromBodyWeAreOrbiting,
                          o.cumulativeOrbitAngle,
                          SolarSystem'[o.orbits].distanceFromBodyWeAreOrbiting,
                          SolarSystem'[o.orbits].lastOrbitAngle,
                          Delta(LastElapsed', LastRate', o.orbitalPeriod)),
               o,
               Plus(o.lastSpinAngle, Delta(LastElapsed', LastRate', o.spinPeriod)))

\* C12 as written: a ring system that orbits its planet is advanced by the
\* three-step orbit (translate out, rotate by the orbit delta, translate back).
RingsOrbitInThreeSteps ==
    [][UnpausedFrameStep =>
          \A i \in Bodies :
              (IsRings(SolarSystem[i]) /\ SolarSystem[i].orbits # 0) =>
                  SolarSystem'[i].modelViewMatrix = AfterThreeSteps(i)]_vars

\* C12 as amended: a ring system is advanced by the seven-step composition
\* when the body it orbits itself orbits something, as Saturn does in the
\* shipped registry, and by the three-step orbit only when that body orbits
\* nothing.
RingsOrbitAsTheirPlanetDoes ==
    [][UnpausedFrameStep =>
          \A i \in Bodies :
              (IsRings(SolarSystem[i]) /\ SolarSystem[i].orbits # 0) =>
                  SolarSystem'[i].modelViewMatrix =
                      IF OrbitsAnOrbiter(SolarSystem[i], SolarSystem)
                        THEN AfterSevenSteps(i)
                        ELSE AfterThreeSteps(i)]_vars

\* the shipped rings around Saturn, advanced twice, the second time with time
\* elapsed, so that Saturn's last orbit delta shows in the rings' matrix
ShippedRingsAdvanced ==
    /\ Len(advances) = 2
    /\ LastElapsed > 0
    /\ Len(SolarSystem) = 7
    /\ IsRings(SolarSystem[7])
    /\ SolarSystem[SolarSystem[7].orbits].name = "Saturn"
    /\ SolarSystem[7].isNotFirstAnimationFrame
    /\ ~IsZero(SolarSystem[SolarSystem[7].orbits].lastOrbitAngle)

\* C13: a ring system that orbits a body has distanceFromBodyWeAreOrbiting 0
\* and the orbitalPeriod and spinPeriod of that body, whatever its own config
\* supplied, from construction on and after every animate call.
RingsTakeParentPeriods ==
    \A i \in Bodies :
        (IsRings(SolarSystem[i]) /\ SolarSystem[i].orbits # 0) =>
            /\ SolarSystem[i].distanceFromBodyWeAreOrbiting = Zero
            /\ SolarSystem[i].orbitalPeriod = SolarSystem[SolarSystem[i].orbits].orbitalPeriod
            /\ SolarSystem[i].spinPeriod = SolarSystem[SolarSystem[i].orbits].spinPeriod
            /\ constructed[i].distanceFromBodyWeAreOrbiting = Zero
            /\ constructed[i].orbitalPeriod = constructed[constructed[i].orbits].orbitalPeriod
            /\ constructed[i].spinPeriod = constructed[constructed[i].orbits].spinPeriod

\* the ring system configured with periods 7 and 3 and a distance of its own,
\* around the planet with periods 10 and 2, advanced twice
ConfiguredRingsAdvanced ==
    /\ Len(advances) = 2
    /\ LastElapsed > 0
    /\ Len(SolarSystem) = 5
    /\ IsRings(SolarSystem[4])
    /\ ScenarioConfigs[4].orbitalPeriod = Num(7)
    /\ ScenarioConfigs[4].spinPeriod = Num(3)
    /\ ~IsZero(ScenarioConfigs[4].orbitDistance)
    /\ SolarSystem[4].orbitalPeriod = Num(10)
    /\ SolarSystem[4].spinPeriod = Num(2)

\* C14: once the bodies have been advanced, an orbiting body's modelViewMatrix
\* is what its running angles and static parameters give: RotY(cumulative) *
\* T(0, 0, -distance), preceded by the same two factors of the orbited body
\* when that body orbits a root at the origin, and followed by
\* Rot(axisArray, 1 rad) * RotY(+/- lastSpinAngle).
OrbitFrame(m, o) ==
    mat4_translate(mat4_rotate(m, Turns(o.cumulativeOrbitAngle), WorldY),
                   AlongZ(Neg(o.distanceFromBodyWeAreOrbiting)))

Recomputed(i) ==
    LET o == SolarSystem[i]
        p == SolarSystem[o.orbits]
    IN  Respun(IF p.orbits = 0 THEN OrbitFrame(mat4_create, o)
                               ELSE OrbitFrame(OrbitFrame(mat4_create, p), o),
               o, o.lastSpinAngle)

IncrementalEqualsRecomputed ==
    advances # <<>> =>
        \A i \in Bodies :
            (/\ SolarSystem[i].orbits # 0
             /\ \/ ~OrbitsAnOrbiter(SolarSystem[i], SolarSystem)
                \/ IsMoonOfPlanetOfSunAtOrigin(i))
                => SolarSystem[i].modelViewMatrix = Recomputed(i)

\* planets, a moon and rings after two animate calls and a change of rate in
\* between, the second call with time elapsed
AdvancedAtTwoRates ==
    /\ Len(advances) = 2
    /\ LastElapsed > 0
    /\ advances[1][2] # advances[2][2]
    /\ Len(SolarSystem) = 7
    /\ \A i \in 3 .. 7 : SolarSystem[i].isNotFirstAnimationFrame

\* C15: for an orbiting body, the two rotations afterOrbit appends at the end
\* of an animate call and the two rotations beforeOrbit composes at the start
\* of the body's next call are inverse to each other, whatever spinsClockwise
\* is, and nothing between the two calls changes what beforeOrbit reads;
\* beforeOrbit composes nothing in the body's first call, and
\* isNotFirstAnimationFrame, set by every call, is never cleared.
ReSpinOf(i) ==
    afterOrbit([SolarSystem[i] EXCEPT !.modelViewMatrix = mat4_create],
               Delta(LastElapsed', LastRate', SolarSystem[i].spinPeriod)).modelViewMatrix

NextUnSpinOf(i) == beforeOrbit(SolarSystem'[i], mat4_create)

\* the fields beforeOrbit reads
UnSpinInputs(o) ==
    <<o.isNotFirstAnimationFrame, o.spinsClockwise, o.lastSpinAngle, o.axisArray>>

UnSpinInvertsReSpin ==
    [][/\ UnpausedFrameStep =>
            \A i \in Bodies :
                SolarSystem[i].orbits # 0 =>
                    \A reSpin \in {ReSpinOf(i)}, unSpin \in {NextUnSpinOf(i)} :
                        /\ mat4_multiply(reSpin, unSpin) = mat4_create
                        /\ mat4_multiply(unSpin, reSpin) = mat4_create
                        /\ Len(reSpin) >= 1
                        /\ reSpin[1][3].r = 1
                        /\ SolarSystem'[i].isNotFirstAnimationFrame
                        /\ ~SolarSystem[i].isNotFirstAnimationFrame =>
                               beforeOrbit(SolarSystem[i], mat4_create) = mat4_create
       /\ ~UnpausedFrameStep =>
            \A i \in Bodies : UnSpinInputs(SolarSystem'[i]) = UnSpinInputs(SolarSystem[i])
       /\ \A i \in Bodies :
              SolarSystem[i].isNotFirstAnimationFrame
                  => SolarSystem'[i].isNotFirstAnimationFrame]_vars

\* a clockwise and an anticlockwise orbiting body after their second animate
\* call, each with a spin angle to undo in its third
BothSpinDirectionsReSpun ==
    /\ Len(advances) = 2
    /\ LastElapsed > 0
    /\ \E i, j \in Bodies :
           /\ SolarSystem[i].orbits # 0
           /\ SolarSystem[j].orbits # 0
           /\ SolarSystem[i].spinsClockwise
           /\ ~SolarSystem[j].spinsClockwise
           /\ ~IsZero(Mod1(SolarSystem[i].lastSpinAngle))
           /\ ~IsZero(Mod1(SolarSystem[j].lastSpinAngle))
           /\ Len(beforeOrbit(SolarSystem[i], mat4_create)) = 2
           /\ Len(beforeOrbit(SolarSystem[j], mat4_create)) = 2

\* the registry as it is inside an unpaused frame once bodies k .. upto have
\* had their animate call, starting from ss
RECURSIVE AnimatedThrough(_, _, _, _, _)
AnimatedThrough(ss, k, upto, mpd, deltaT) ==
    IF k > upto THEN ss
    ELSE CHOOSE result \in
             { AnimatedThrough(next, k + 1, upto, mpd, deltaT) :
                   next \in {[ss EXCEPT ![k] = animate(ss, k, mpd, deltaT)]} } : TRUE

\* the registry at the moment body i's animate call starts in the frame that
\* this step is
WhenAdvanced(i) == AnimatedThrough(SolarSystem, 1, i - 1, LastRate', LastElapsed')

\* C16: when animate is called on a body whose orbited body P orbits
\* something, every body before it in the registry, P among them, has had its
\* call of this frame and no body after it has, so that P.lastOrbitAngle is
\* P's orbit delta for the elapsed time and rate of this very frame; the frame
\* ends when the remaining bodies have had their one call each.
ParentDeltaIsOfThisFrame ==
    [][UnpausedFrameStep =>
          \A i \in Bodies :
              OrbitsAnOrbiter(SolarSystem[i], SolarSystem) =>
                  \A during \in {WhenAdvanced(i)} :
                      /\ SolarSystem[i].orbits < i
                      /\ during[SolarSystem[i].orbits].lastOrbitAngle =
                             Delta(LastElapsed', LastRate',
                                   SolarSystem[SolarSystem[i].orbits].orbitalPeriod)
                      /\ \A j \in i .. Len(SolarSystem) : during[j] = SolarSystem[j]
                      /\ SolarSystem' =
                             AnimatedThrough(during, i, Len(SolarSystem),
                                             LastRate', LastElapsed')]_vars

\* a moon's second animate call has read a delta of its planet that is
\* neither the planet's phase of construction nor its delta of the frame before
MoonReadFreshParentDelta ==
    /\ Len(advances) = 2
    /\ advances[1][1] = 0
    /\ LastElapsed > 0
    /\ \E i \in Bodies :
           /\ OrbitsAnOrbiter(SolarSystem[i], SolarSystem)
           /\ ~IsRings(SolarSystem[i])
           /\ SolarSystem[SolarSystem[i].orbits].lastOrbitAngle
                  # constructed[SolarSystem[i].orbits].lastOrbitAngle
           /\ ~IsZero(SolarSystem[SolarSystem[i].orbits].lastOrbitAngle)

\* C17: a body that orbits another stands after it in the registry, its orbits
\* reference is the one of its construction, and the body it orbits either
\* orbits nothing or orbits a body that orbits nothing; so the relation has
\* no cycle and no chain of more than two links.
OrbitsRelationIsShallowForest ==
    \A i \in Bodies :
        /\ SolarSystem[i].orbits = constructed[i].orbits
        /\ SolarSystem[i].orbits \in 0 .. (i - 1)
        /\ OrbitsAnOrbiter(SolarSystem[i], SolarSystem)
               => SolarSystem[SolarSystem[SolarSystem[i].orbits].orbits].orbits = 0

\* the shipped registry after two animate calls: roots, planets around the
\* second body, a moon and rings around planets
ChainsOfTwoLinksAdvanced ==
    /\ Len(advances) = 2
    /\ LastElapsed > 0
    /\ Len(SolarSystem) = 7
    /\ SolarSystem[1].orbits = 0
    /\ SolarSystem[4].orbits = 2
    /\ SolarSystem[6].orbits = 4
    /\ SolarSystem[7].orbits = 5

\* C18: at construction and after every frame, a ring system's modelViewMatrix
\* takes the origin point to where the modelViewMatrix of the body it orbits
\* takes it.
RingsCentredOnParent ==
    \A i \in Bodies :
        (IsRings(SolarSystem[i]) /\ SolarSystem[i].orbits # 0) =>
            /\ WorldPosition(SolarSystem[i].modelViewMatrix).known
            /\ WorldPosition(SolarSystem[i].modelViewMatrix) =
                   WorldPosition(SolarSystem[SolarSystem[i].orbits].modelViewMatrix)
            /\ WorldPosition(constructed[i].modelViewMatrix) =
                   WorldPosition(constructed[constructed[i].orbits].modelViewMatrix)

\* Saturn has moved away from where construction put it, and the rings with it
RingsFollowedSaturn ==
    /\ Len(advances) = 2
    /\ LastElapsed > 0
    /\ Len(SolarSystem) = 7
    /\ IsRings(SolarSystem[7])
    /\ WorldPosition(SolarSystem[7].modelViewMatrix).terms # {}
    /\ WorldPosition(SolarSystem[7].modelViewMatrix)
           # WorldPosition(constructed[7].modelViewMatrix)
    /\ WorldPosition(SolarSystem[5].modelViewMatrix)
           # WorldPosition(constructed[5].modelViewMatrix)

\* body i has had the animate calls of exactly the frames in the log of
\* advances: its angles are those of construction plus the deltas of every
\* entry, and an orbiting body's flag is set exactly when the log is not empty
AdvancedWithEveryFrame(i) ==
    /\ SolarSystem[i].cumulativeOrbitAngle =
           Plus(constructed[i].cumulativeOrbitAngle,
                SumOfDeltas(advances, SolarSystem[i].orbitalPeriod))
    /\ SolarSystem[i].lastSpinAngle = SumOfDeltas(advances, SolarSystem[i].spinPeriod)
    /\ SolarSystem[i].orbits # 0 =>
           (SolarSystem[i].isNotFirstAnimationFrame <=> advances # <<>>)

\* C19: between the steps of the page every body has had the same number of
\* animate calls, one per unpaused frame so far; a draw, in a frame or after a
\* key or slider event, reads the matrices of that registry; and a step that
\* is not an unpaused frame, an input event's draw among them, changes no
\* body's matrix or angles, paused or not.
DrawsSeeWholeFrames ==
    /\ [](\A i \in Bodies : AdvancedWithEveryFrame(i))
    /\ [][/\ UnpausedFrameStep =>
               /\ canvas'.by = "frame"
               /\ canvas'.mvMatrix = Mats
          /\ ~UnpausedFrameStep =>
               /\ \A i \in Bodies :
                      AngleFields(SolarSystem'[i]) = AngleFields(SolarSystem[i])
               /\ canvas' # canvas =>
                      /\ canvas'.by = "input"
                      /\ canvas'.mvMatrix = Mats']_vars

\* a slider event's draw while paused, after two animate calls
InputDrawnWhilePaused ==
    /\ Len(advances) = 2
    /\ LastElapsed > 0
    /\ paused
    /\ canvas.by = "input"
    /\ canvas.mvMatrix = Mats
    /\ millisecondsPerDay # LastRate

\* the configs the registry was constructed from
ConfigsOf == IF Len(constructed) = Len(ShippedConfigs) THEN ShippedConfigs
                                                      ELSE ScenarioConfigs

PeriodMissingOrZero(config, f) == f \notin DOMAIN config \/ IsZero(config[f])

\* C20: the rate handed to animate is the value of the slider, an integer in
\* 10 .. 5000, and every body's orbitalPeriod and spinPeriod are non-zero, so
\* that millisecondsPerDay * period, the divisor of calculatePortionOf, is
\* never 0; a period that the config leaves out or gives as 0 is 1, and a ring
\* system has the non-zero periods of the body it orbits.
NoZeroDivisor ==
    /\ millisecondsPerDay \in 10 .. 5000
    /\ \A k \in 1 .. Len(advances) : advances[k][2] \in 10 .. 5000
    /\ \A i \in Bodies :
           /\ ~IsZero(SolarSystem[i].orbitalPeriod)
           /\ ~IsZero(SolarSystem[i].spinPeriod)
           /\ ~IsZero(Times(Num(millisecondsPerDay), SolarSystem[i].orbitalPeriod))
           /\ ~IsZero(Times(Num(millisecondsPerDay), SolarSystem[i].spinPeriod))
           /\ SolarSystem[i].orbitalPeriod = constructed[i].orbitalPeriod
           /\ SolarSystem[i].spinPeriod = constructed[i].spinPeriod
           /\ ~(IsRings(SolarSystem[i]) /\ SolarSystem[i].orbits # 0) =>
                  /\ PeriodMissingOrZero(ConfigsOf[i], "orbitalPeriod")
                         => SolarSystem[i].orbitalPeriod = One
                  /\ PeriodMissingOrZero(ConfigsOf[i], "spinPeriod")
                         => SolarSystem[i].spinPeriod = One

\* the registry whose first config gives an orbitalPeriod of 0, animated twice,
\* the second time at a rate the slider was moved to
ZeroPeriodConfigAdvanced ==
    /\ Len(advances) = 2
    /\ LastElapsed > 0
    /\ LastRate = 500
    /\ ConfigsOf = ScenarioConfigs
    /\ "orbitalPeriod" \in DOMAIN ConfigsOf[1]
    /\ IsZero(ConfigsOf[1].orbitalPeriod)
    /\ SolarSystem[1].orbitalPeriod = One

\* a <= b for two fractions
Leq(a, b) == Minus(b, a)[1] >= 0

\* the body o with the opposite spinsClockwise
OppositeSpin(o) == [o EXCEPT !.spinsClockwise = ~@]

\* body i as the constructor leaves it when its config says the opposite of
\* spinsClockwise and everything else, the random values included, is the same
OppositelyConstructed(i) ==
    Construct([ConfigsOf EXCEPT
                   ![i] = [spinsClockwise |-> ~constructed[i].spinsClockwise] @@ @],
              <<>>, CHOOSE stream \in RandomStreams : TRUE)[i]

\* the registry inside the frame that this step is, at the moment body i's
\* animate call starts: the bodies before i have had their call
DuringFrame(i) ==
    [j \in Bodies |-> IF j < i THEN SolarSystem'[j] ELSE SolarSystem[j]]

\* what one animate call leaves in the matrix of the orbiting body o, whose
\* orbited body is p: un-spin, the orbit step, re-spin
AfterOrbitSteps(o, p, orbitDelta, spinDelta) ==
    Respun(IF p.orbits = 0
             THEN ThreeSteps(Unspun(o), o.distanceFromBodyWeAreOrbiting, orbitDelta)
             ELSE SevenSteps(Unspun(o), o.distanceFromBodyWeAreOrbiting,
                             o.cumulativeOrbitAngle, p.distanceFromBodyWeAreOrbiting,
                             p.lastOrbitAngle, orbitDelta),
           o, Plus(o.lastSpinAngle, spinDelta))

\* C21: the opposite spinsClockwise changes, at construction, only the sign of
\* an orbiting body's random phase (and its matrix with it) and, in an animate
\* call, only the sign of the two spin rotations about world Y of an orbiting
\* body; the orbit delta is the same and not negative either way, and no step
\* makes any body's cumulativeOrbitAngle smaller.
SpinsClockwiseFlipsSpinAndPhaseOnly ==
    /\ \A i \in Bodies :
           \A c \in {constructed[i]}, t \in {OppositelyConstructed(i)} :
               /\ t.lastOrbitAngle = (IF c.orbits # 0 /\ ~IsRings(c)
                                        THEN Neg(c.lastOrbitAngle) ELSE c.lastOrbitAngle)
               /\ t.cumulativeOrbitAngle = t.lastOrbitAngle
               /\ t.modelViewMatrix =
                      initMatrix([c EXCEPT !.lastOrbitAngle = t.lastOrbitAngle],
                                 constructed).modelViewMatrix
               /\ t = [c EXCEPT !.spinsClockwise = ~@,
                                !.lastOrbitAngle = t.lastOrbitAngle,
                                !.cumulativeOrbitAngle = t.lastOrbitAngle,
                                !.modelViewMatrix = t.modelViewMatrix]
    /\ [][/\ \A i \in Bodies :
                 Leq(SolarSystem[i].cumulativeOrbitAngle,
                     SolarSystem'[i].cumulativeOrbitAngle)
          /\ UnpausedFrameStep =>
                 \A i \in Bodies :
                     \A o \in {SolarSystem[i]}, n \in {SolarSystem'[i]},
                        orbitDelta \in {Delta(LastElapsed', LastRate',
                                              SolarSystem[i].orbitalPeriod)},
                        spinDelta \in {Delta(LastElapsed', LastRate',
                                             SolarSystem[i].spinPeriod)},
                        t \in {animate([DuringFrame(i) EXCEPT ![i] = OppositeSpin(@)],
                                       i, LastRate', LastElapsed')} :
                         /\ Leq(Zero, orbitDelta)
                         /\ n.lastOrbitAngle = orbitDelta
                         /\ n.cumulativeOrbitAngle = Plus(o.cumulativeOrbitAngle, orbitDelta)
                         /\ t = [n EXCEPT !.spinsClockwise = ~@,
                                          !.modelViewMatrix = t.modelViewMatrix]
                         /\ o.orbits = 0 => t.modelViewMatrix = n.modelViewMatrix
                         /\ o.orbits # 0 =>
                                /\ n.modelViewMatrix =
                                       AfterOrbitSteps(o, SolarSystem'[o.orbits],
                                                       orbitDelta, spinDelta)
                                /\ t.modelViewMatrix =
                                       AfterOrbitSteps(OppositeSpin(o), SolarSystem'[o.orbits],
                                                       orbitDelta, spinDelta)]_vars

\* a clockwise orbiting body whose phase of construction is negative, advanced
\* twice, the second time with time elapsed, its cumulative angle grown
ClockwiseOrbiterAdvanced ==
    /\ Len(advances) = 2
    /\ LastElapsed > 0
    /\ \E i \in Bodies :
           /\ SolarSystem[i].orbits # 0
           /\ SolarSystem[i].spinsClockwise
           /\ constructed[i].cumulativeOrbitAngle[1] < 0
           /\ SolarSystem[i].cumulativeOrbitAngle # constructed[i].cumulativeOrbitAngle
           /\ Leq(constructed[i].cumulativeOrbitAngle, SolarSystem[i].cumulativeOrbitAngle)
           /\ ~IsZero(SolarSystem[i].lastSpinAngle)

\* the configs that have been constructed so far
Built == 1 .. Len(SolarSystem)

\* the value Math.random() returned to the constructor of body i, which drew one
DrawnFor(i) == random[Cardinality({k \in 1 .. i : DrawsRandom(configs[k])})]

\* C22: as constructed, a ring system has lastOrbitAngle = cumulativeOrbitAngle
\* = 90 degrees (a quarter of a turn) and has drawn no random value; any other
\* orbiting body has both equal to 1/U of a turn (2*pi/U) for the U it drew,
\* negated exactly when spinsClockwise; a body that orbits nothing has both 0;
\* and lastSpinAngle is 0 for every body.
StartingOrbitAsConstructed ==
    /\ Len(random) = Cardinality({k \in Built : DrawsRandom(configs[k])})
    /\ \A i \in Built :
           \A o \in {SolarSystem[i]} :
               /\ o.lastSpinAngle = Zero
               /\ o.cumulativeOrbitAngle = o.lastOrbitAngle
               /\ IF IsRings(o)
                    THEN /\ o.lastOrbitAngle = Frac(1, 4)
                         /\ ~DrawsRandom(configs[i])
                  ELSE IF o.orbits # 0
                    THEN /\ DrawsRandom(configs[i])
                         /\ o.lastOrbitAngle =
                                (IF o.spinsClockwise THEN Neg(Over(One, DrawnFor(i)))
                                                     ELSE Over(One, DrawnFor(i)))
                         /\ (o.lastOrbitAngle[1] < 0) <=> o.spinsClockwise
                  ELSE /\ o.lastOrbitAngle = Zero
                       /\ ~DrawsRandom(configs[i])

\* the shipped registry, constructed with different values drawn for Venus,
\* which spins clockwise, and for Earth, the rings coming last
RegistryConstructedFromDraws ==
    /\ configs = ShippedConfigs
    /\ Len(SolarSystem) = 7
    /\ Len(random) = 4
    /\ random[1] # random[2]
    /\ SolarSystem[3].spinsClockwise
    /\ SolarSystem[3].cumulativeOrbitAngle = Neg(Over(One, random[1]))
    /\ SolarSystem[4].cumulativeOrbitAngle = Over(One, random[2])
    /\ IsRings(SolarSystem[7])
    /\ SolarSystem[7].cumulativeOrbitAngle = Frac(1, 4)

\* C23: as constructed, distanceFromBodyWeAreOrbiting is 0 for a ring system
\* and for a body that orbits nothing, and for any other body it is its own
\* radius / 100 plus its orbitDistance / 50000 (both as its config gave them,
\* or the defaults 10 and 0) plus the radius of the orbited body as that body
\* ended up with, which for the Sun is a tenth of its radius / 100; an origin
\* that the config does not give is the orbited body's origin with that
\* distance subtracted from Z only, or (0, 0, 0) for a body that orbits nothing.
DistanceAndOriginAsConstructed ==
    \A i \in Built :
        \A o \in {SolarSystem[i]},
           ownRadius \in {Over(NumOr(configs[i], "radius", Num(10)), Num(100))},
           ownDistance \in {Over(NumOr(configs[i], "orbitDistance", Zero), Num(50000))} :
            /\ o.radius = (IF o.name = "Sun" THEN Over(ownRadius, Num(10)) ELSE ownRadius)
            /\ o.orbitDistance = ownDistance
            /\ o.distanceFromBodyWeAreOrbiting =
                   (IF IsRings(o) \/ o.orbits = 0 THEN Zero
                    ELSE Plus(Plus(ownRadius, ownDistance), SolarSystem[o.orbits].radius))
            /\ o.origin =
                   (IF "origin" \in DOMAIN configs[i] THEN configs[i].origin
                    ELSE IF o.orbits = 0 THEN ZeroVec
                    ELSE <<SolarSystem[o.orbits].origin[1],
                           SolarSystem[o.orbits].origin[2],
                           Minus(SolarSystem[o.orbits].origin[3],
                                 o.distanceFromBodyWeAreOrbiting)>>)

\* the shipped registry constructed: Earth at 39.59 + 1860 + 432.5 from the
\* Sun, whose radius 4325 was divided by 10, the moon beyond Earth on Z, and
\* the rings at Saturn's origin
DistancesOfShippedRegistry ==
    /\ configs = ShippedConfigs
    /\ Len(SolarSystem) = 7
    /\ SolarSystem[2].name = "Sun"
    /\ SolarSystem[2].radius = Frac(865, 2)
    /\ SolarSystem[4].distanceFromBodyWeAreOrbiting = Frac(233209, 100)
    /\ SolarSystem[4].origin = <<Zero, Zero, Frac(-233209, 100)>>
    /\ SolarSystem[6].orbits = 4
    /\ ~Leq(SolarSystem[4].origin[3], SolarSystem[6].origin[3])
    /\ IsRings(SolarSystem[7])
    /\ SolarSystem[7].distanceFromBodyWeAreOrbiting = Zero
    /\ SolarSystem[7].origin = SolarSystem[5].origin
    /\ SolarSystem[7].origin # ZeroVec

\* the fields of a body that the claim calls static
StaticFields(o) ==
    <<o.origin, o.radius, o.orbitDistance, o.distanceFromBodyWeAreOrbiting,
      o.orbitalPeriod, o.spinPeriod, o.axis, o.axisArray, o.orbits, o.spinsClockwise>>

\* C24: every body's origin, radius, orbitDistance,
\* distanceFromBodyWeAreOrbiting, orbitalPeriod, spinPeriod, axis, axisArray,
\* orbits and spinsClockwise are always those of its construction, and the
\* animate calls of a frame write nothing of a body but modelViewMatrix,
\* lastOrbitAngle, cumulativeOrbitAngle, lastSpinAngle and
\* isNotFirstAnimationFrame.
AnimateWritesOnlyRunningFields ==
    /\ [](\A i \in Bodies : StaticFields(SolarSystem[i]) = StaticFields(constructed[i]))
    /\ [][UnpausedFrameStep =>
              \A i \in Bodies :
                  \A n \in {SolarSystem'[i]} :
                      n = [SolarSystem[i] EXCEPT
                               !.modelViewMatrix = n.modelViewMatrix,
                               !.lastOrbitAngle = n.lastOrbitAngle,
                               !.cumulativeOrbitAngle = n.cumulativeOrbitAngle,
                               !.lastSpinAngle = n.lastSpinAngle,
                               !.isNotFirstAnimationFrame = n.isNotFirstAnimationFrame]]_vars

\* every orbiting body of the shipped registry has been moved by two animate
\* calls, the second with time elapsed
RunningFieldsWritten ==
    /\ Len(advances) = 2
    /\ LastElapsed > 0
    /\ Len(SolarSystem) = 7
    /\ \A i \in 3 .. 7 :
           /\ SolarSystem[i].modelViewMatrix # constructed[i].modelViewMatrix
           /\ SolarSystem[i].cumulativeOrbitAngle # constructed[i].cumulativeOrbitAngle
           /\ SolarSystem[i].lastOrbitAngle # constructed[i].lastOrbitAngle
           /\ ~IsZero(SolarSystem[i].lastSpinAngle)
           /\ SolarSystem[i].isNotFirstAnimationFrame
           /\ ~constructed[i].isNotFirstAnimationFrame

\* body i orbits a body that orbits nothing
OrbitsARoot(i) == SolarSystem[i].orbits # 0 /\ ~OrbitsAnOrbiter(SolarSystem[i], SolarSystem)

\* body i of the registry ss after one animate call, and after two in a row
AdvancedOnce(ss, i, rate, t) == animate(ss, i, rate, t)

AdvancedTwice(ss, i, rate, t1, t2) ==
    CHOOSE o \in { animate([ss EXCEPT ![i] = first], i, rate, t2) :
                   first \in {animate(ss, i, rate, t1)} } : TRUE

SameEnd(a, b) ==
    /\ a.cumulativeOrbitAngle = b.cumulativeOrbitAngle
    /\ a.lastSpinAngle = b.lastSpinAngle
    /\ a.modelViewMatrix = b.modelViewMatrix

\* where the elapsed time e of a frame is cut in two
SplitsOf(e) == IF e = 0 THEN {0} ELSE {250}

\* C25: for a body that orbits a body that orbits nothing, at one rate, an
\* animate call with t1 followed by one with t2 leaves cumulativeOrbitAngle,
\* lastSpinAngle and modelViewMatrix as a single call with t1 + t2 does: from
\* the registry as constructed with 250 and 500 milliseconds at every rate,
\* and from the state every frame starts in with the time the frame hands to
\* animate cut in two after 250 milliseconds.
ElapsedTimeIsAdditive ==
    /\ \A i \in Bodies :
           OrbitsARoot(i) =>
               \A rate \in SliderValues :
                   SameEnd(AdvancedTwice(SolarSystem, i, rate, 250, 500),
                           AdvancedOnce(SolarSystem, i, rate, 750))
    /\ [][UnpausedFrameStep =>
              \A i \in Bodies :
                  OrbitsARoot(i) =>
                      \A t1 \in SplitsOf(LastElapsed') :
                          SameEnd(AdvancedTwice(SolarSystem, i, LastRate', t1,
                                                LastElapsed' - t1),
                                  SolarSystem'[i])]_vars

\* a frame was skipped: the second animate call was handed the time of two
\* clock steps, and the orbiters of roots have moved and spun by it
AdvancedAfterSkippedFrame ==
    /\ Len(advances) = 2
    /\ advances[1][1] = 0
    /\ LastElapsed = 1000
    /\ Len(SolarSystem) = 7
    /\ \A i \in 3 .. 5 :
           /\ OrbitsARoot(i)
           /\ SolarSystem[i].isNotFirstAnimationFrame
           /\ ~IsZero(SolarSystem[i].lastSpinAngle)
           /\ SameEnd(AdvancedTwice(constructed, i, LastRate, 0, 1000), SolarSystem[i])

ZeroElapsedLeavesAdvancedBodies ==
    [][UnpausedFrameStep =>
          /\ LastElapsed' = 0 =>
                 \A i \in Bodies :
                     \A o \in {SolarSystem[i]}, n \in {SolarSystem'[i]} :
                         o.orbits # 0 =>
                             /\ n.lastOrbitAngle = Zero
                             /\ n.cumulativeOrbitAngle = o.cumulativeOrbitAngle
                             /\ n.lastSpinAngle = o.lastSpinAngle
                             /\ IF o.isNotFirstAnimationFrame
                                  THEN n.modelViewMatrix = o.modelViewMatrix
                                  ELSE /\ n.modelViewMatrix =
                                              mat4_rotate(o.modelViewMatrix, Radians(1),
                                                          o.axisArray)
                                       /\ n.modelViewMatrix # o.modelViewMatrix
                                       /\ n.isNotFirstAnimationFrame
          /\ \A again \in {app_animate(SolarSystem', LastRate', 0)} :
                 \A i \in Bodies :
                     SolarSystem[i].orbits # 0 =>
                         again[i] = [SolarSystem'[i] EXCEPT !.lastOrbitAngle = Zero]]_vars

\* the frame after a pause handed 0 milliseconds to bodies that the first
\* frame had advanced: they are where the first frame left them, tilted
ZeroElapsedAfterPause ==
    /\ Len(advances) = 2
    /\ advances[2][1] = 0
    /\ now > StartNow
    /\ lastFrame = [kind |-> "unpaused", at |-> now]
    /\ Len(SolarSystem) = 7
    /\ \A i \in 3 .. 7 :
           /\ SolarSystem[i].isNotFirstAnimationFrame
           /\ SolarSystem[i].lastOrbitAngle = Zero
           /\ SolarSystem[i].cumulativeOrbitAngle = constructed[i].cumulativeOrbitAngle
           /\ SolarSystem[i].modelViewMatrix =
                  mat4_rotate(constructed[i].modelViewMatrix, Radians(1),
                              SolarSystem[i].axisArray)

\* C28: startTheApp is called at most once, by the poll that finds every
\* body ready; until then exactly one poll timer is pending and no frame
\* callback, from then on no poll timer and exactly one frame callback; and a
\* step of the page, whichever callback it is, hands at most one elapsed time
\* to animate and adds at most one orbit delta to each body.
OneStartOneFrameLoop ==
    /\ [](/\ pollTimers \in {0, 1}
          /\ frameCallbacks \in {0, 1}
          /\ started <=> frameCallbacks = 1
          /\ started <=> pollTimers = 0)
    /\ [][/\ started => started'
          /\ started' # started =>
                 /\ allAssetsDownloaded(SolarSystem)
                 /\ pollTimers = 1
                 /\ pollTimers' = 0
                 /\ frameCallbacks' = 1
                 /\ Len(advances') = 1
          /\ Len(advances') \in {Len(advances), Len(advances) + 1}
          /\ UnpausedFrameStep =>
                 /\ started'
                 /\ frameCallbacks' = 1
                 /\ \A i \in Bodies :
                        SolarSystem'[i].cumulativeOrbitAngle =
                            Plus(SolarSystem[i].cumulativeOrbitAngle,
                                 Delta(LastElapsed', LastRate', SolarSystem[i].orbitalPeriod))
          /\ ~UnpausedFrameStep =>
                 \A i \in Bodies :
                     SolarSystem'[i].cumulativeOrbitAngle
                         = SolarSystem[i].cumulativeOrbitAngle]_vars

\* the loop is running after the poll waited for the images, two frames, a
\* pause and an input event, with one frame callback pending
LoopRunningAfterInterleaving ==
    /\ started
    /\ frameCallbacks = 1
    /\ pollTimers = 0
    /\ Len(advances) = 2
    /\ LastElapsed > 0
    /\ paused
    /\ lastFrame = [kind |-> "paused", at |-> now]
    /\ canvas.by = "input"
    /\ \A i \in Bodies : SolarSystem[i].texture

\* the sum of the elapsed times handed to animate
RECURSIVE SumOfElapsed(_)
SumOfElapsed(log) ==
    IF log = <<>> THEN 0 ELSE Head(log)[1] + SumOfElapsed(Tail(log))

\* C29: the elapsed times handed to animate add up to no more than the time
\* from the first frame callback to the latest one, and the sum grows only in
\* an unpaused frame that follows an unpaused frame, by the time between the
\* two; a paused frame adds nothing, and neither does the unpaused frame after
\* it, whatever time has passed since the unpaused frame before the pause.
ElapsedSumExcludesPauses ==
    /\ [](/\ SumOfElapsed(advances) >= 0
          /\ SumOfElapsed(advances) <=
                 (IF lastFrame.kind = "none" THEN 0 ELSE lastFrame.at - StartNow)
          /\ lastFrame.kind # "none" => lastFrame.at <= now)
    /\ [][/\ SumOfElapsed(advances') - SumOfElapsed(advances) =
                 (IF lastFrame' # lastFrame /\ lastFrame'.kind = "unpaused"
                       /\ lastFrame.kind = "unpaused"
                    THEN lastFrame'.at - lastFrame.at
                    ELSE 0)
          /\ (lastFrame' # lastFrame /\ lastFrame'.kind = "paused") => advances' = advances
          /\ (UnpausedFrameStep /\ lastFrame.kind = "paused") =>
                 /\ LastElapsed' = 0
                 /\ SumOfElapsed(advances') <= beforePause.at - StartNow]_vars

\* the clock stepped before and after a paused frame, and the unpaused frame
\* that followed was handed none of that time
PausedTimeLeftOut ==
    /\ Len(advances) = 2
    /\ SumOfElapsed(advances) = 0
    /\ lastFrame = [kind |-> "unpaused", at |-> LastNow]
    /\ now = LastNow
    /\ ~paused
    /\ timeLastFrame = LastNow

\* the outer loop has ended: return indexData
Returned == latNumber >= latitudeBands

\* C30: while _getIndexData runs, indexData holds 6 indices for every pass of
\* the inner loop made so far, every one of them in 0 .. (L + 1) * (G + 1) - 1,
\* an index of one of the (L + 1) * (G + 1) vertices, and below 65536, so
\* that the Uint16Array made of it holds the same numbers; when it returns,
\* indexData holds 6 * L * G of them.
IndexDataWithinVertices ==
    /\ latNumber \in 0 .. latitudeBands
    /\ longNumber \in 0 .. longitudeBands
    /\ Len(indexData) =
           6 * (IF Returned THEN latitudeBands * longitudeBands
                            ELSE latNumber * longitudeBands + longNumber)
    /\ \A k \in 1 .. Len(indexData) :
           /\ indexData[k] \in 0 .. (numItems(latitudeBands, longitudeBands) - 1)
           /\ indexData[k] < 65536
    /\ Uint16Array(indexData) = indexData
    /\ Returned => Len(indexData) = 6 * latitudeBands * longitudeBands

\* the call with 30 and 30 bands has returned 5400 indices, the largest of
\* them the last of the 961 vertices
SphereOfThirtyBandsIndexed ==
    /\ latitudeBands = ShippedBands
    /\ longitudeBands = ShippedBands
    /\ Returned
    /\ Len(indexData) = 5400
    /\ indexData[5399] = 960
    /\ numItems(latitudeBands, longitudeBands) = 961

====
